---- MODULE Spec2Model ----
(***************************************************************************)
(* Model of the Homemate bridge: the frame codec (HomematePacket), the     *)
(* per-connection handler (HomemateTCPHandler: one thread per connection), *)
(* the entity updaters and entities that run on the host's event loop, and *)
(* the registry of live handlers.                                          *)
(***************************************************************************)
EXTENDS Integers, Sequences, FiniteSets, TLC

\* Python's None, and the absence of a key in a JSON object / dict.
None == "None"
\* None in a field whose values, when set, are sequences (bytes, str)
Unset == <<>>
\* Python's True and False as values a field can hold beside None
True == "True"
False == "False"

(***************************************************************************)
(* Bounds of the model.                                                    *)
(***************************************************************************)
\* frames one connection's read loop receives
MaxFrames == 3
\* order_state_change calls accepted per handler
MaxOrders == 2

(***************************************************************************)
(* Program constants.                                                      *)
(***************************************************************************)
IdLen == 32
KeyLen == 16
BlockLen == 16
TYPE_PK == 112
TYPE_DK == 100
CMD_HELLO == 0
CMD_HANDSHAKE == 6
CMD_HEARTBEAT == 32
CMD_STATE_UPDATE == 99
CMD_ORDER == 98

MAGIC == <<104, 100>>
PACKET_PK == <<112, 107>>
PACKET_DK == <<100, 107>>
ID_UNSET == [i \in 1..IdLen |-> 0]
CMD_SERVER_SENDS == {15, 98}

\* string.ascii_lowercase, string.ascii_uppercase, string.digits, each
\* character as its byte
ascii_lowercase == 97..122
ascii_uppercase == 65..90
digits == 48..57

\* base64.b64decode("a2hnZ2Q1NDg2NVNOSkhHRg=="): b"khggd54865SNJHGF"
DefaultKey ==
    <<107, 104, 103, 103, 100, 53, 52, 56, 54, 53, 83, 78, 74, 72, 71, 70>>
_initial_keys == [t \in {TYPE_PK} |-> DefaultKey]

(***************************************************************************)
(* Dicts (JSON objects, Python dicts) are functions from keys to values.   *)
(***************************************************************************)
Has(d, k) == k \in DOMAIN d
\* dict.get(k, None)
Get(d, k) == IF k \in DOMAIN d THEN d[k] ELSE None
\* d[k] = v on a dict
Put(d, k, v) == [x \in DOMAIN d \cup {k} |-> IF x = k THEN v ELSE d[x]]
EmptyDict == [x \in {} |-> None]

(***************************************************************************)
(* HomematePacket: the frame codec.  A frame on the wire is the record     *)
(*   magic, length (declared), len (physical bytes), packet_type, crc,     *)
(*   switch_id, payload (the ciphertext), ws (trailing whitespace bytes).  *)
(* A ciphertext is the record [key, json]: the JSON text json padded and   *)
(* AES-ECB encrypted under key.  Decrypting under another key yields       *)
(* bytes that fail to unpad or to parse.                                   *)
(***************************************************************************)
crc32(ct) == <<"crc32", ct>>

\* len(encrypted_payload): the padded text is a whole number of blocks
len_payload(ct) == BlockLen * ct.blocks

encrypt_payload(key, payload) ==
    [key |-> key, json |-> payload, blocks |-> 1 + Cardinality(DOMAIN payload)]

\* result: [ok |-> TRUE, value |-> dict] or [ok |-> FALSE, error |-> ...]
decrypt_payload(key, ct) ==
    IF ct.key = key
    THEN [ok |-> TRUE, value |-> ct.json]
    ELSE [ok |-> FALSE, error |-> "ValueError"]

build_packet(packet_type, key, switch_id, payload) ==
    LET encrypted_payload == encrypt_payload(key, payload)
        length == len_payload(encrypted_payload)
                  + (Len(MAGIC) + Len(packet_type) + 4 + Len(switch_id)) + 2
    IN [magic |-> MAGIC, length |-> length, len |-> length,
        packet_type |-> packet_type, crc |-> crc32(encrypted_payload),
        switch_id |-> switch_id, payload |-> encrypted_payload, ws |-> 0]

\* bytes.strip(): leading and trailing whitespace bytes are removed; the
\* magic is no whitespace, so only a tail of the ciphertext can go.
strip(data) ==
    IF data.ws = 0 THEN data
    ELSE [data EXCEPT !.len = @ - data.ws,
                      !.payload = [@ EXCEPT !.key = <<>>],
                      !.ws = 0]

\* The steps of HomematePacket.__init__, in the order of its lines.
DecodeSteps ==
    <<"magic", "length", "packet_type", "crc", "switch_id", "lookup",
      "decrypt">>
Upto(step) ==
    SubSeq(DecodeSteps, 1,
           CHOOSE i \in 1..Len(DecodeSteps) : DecodeSteps[i] = step)

\* mutant: the payload is decrypted before the frame is checked
HomematePacket_decrypt_first(data, keys) ==
    IF data.packet_type[1] \notin DOMAIN keys
    THEN [ok |-> FALSE, error |-> "KeyError", reached |-> <<"lookup">>]
    ELSE LET dec == decrypt_payload(keys[data.packet_type[1]], data.payload)
             reached == <<"lookup", "decrypt">>
         IN IF ~dec.ok
            THEN [ok |-> FALSE, error |-> dec.error, reached |-> reached]
            ELSE IF data.magic # MAGIC \/ data.length # data.len
                    \/ data.packet_type \notin {PACKET_PK, PACKET_DK}
                    \/ crc32(data.payload) # data.crc
            THEN [ok |-> FALSE, error |-> "AssertionError",
                  reached |-> reached]
            ELSE [ok |-> TRUE, packet_type |-> data.packet_type,
                  switch_id |-> data.switch_id, json_payload |-> dec.value,
                  reached |-> reached]

\* HomematePacket(data, keys): the checks of __init__, then the key lookup
\* and the decryption; reached: the steps that ran, the failing one last.
HomematePacket(data, keys) ==
    LET raise(error, step) ==
            [ok |-> FALSE, error |-> error, reached |-> Upto(step)]
    IN IF data.magic # MAGIC THEN raise("AssertionError", "magic")
       ELSE IF data.length # data.len THEN raise("AssertionError", "length")
       ELSE IF data.packet_type \notin {PACKET_PK, PACKET_DK}
            THEN raise("AssertionError", "packet_type")
       ELSE IF crc32(data.payload) # data.crc
            THEN raise("AssertionError", "crc")
       ELSE IF data.packet_type[1] \notin DOMAIN keys
            THEN raise("KeyError", "lookup")
       ELSE LET dec == decrypt_payload(keys[data.packet_type[1]],
                                       data.payload)
            IN IF ~dec.ok THEN raise(dec.error, "decrypt")
               ELSE [ok |-> TRUE, packet_type |-> data.packet_type,
                     switch_id |-> data.switch_id,
                     json_payload |-> dec.value,
                     reached |-> DecodeSteps]

(***************************************************************************)
(* HomematePacket on bytes.  A byte string is a sequence of 0..255; a str  *)
(* is the sequence of its UTF-8 bytes.  The sessions above handle frames   *)
(* as records; the definitions below are the same functions on the bytes   *)
(* of a frame, with the padding, the null byte, the length field and the   *)
(* CRC computed as the code computes them.                                 *)
(***************************************************************************)
\* a ^ b on bytes
xor(a, b) ==
    ((a + b) % 2)
    + 2 * (((a \div 2) + (b \div 2)) % 2)
    + 4 * (((a \div 4) + (b \div 4)) % 2)
    + 8 * (((a \div 8) + (b \div 8)) % 2)
    + 16 * (((a \div 16) + (b \div 16)) % 2)
    + 32 * (((a \div 32) + (b \div 32)) % 2)
    + 64 * (((a \div 64) + (b \div 64)) % 2)
    + 128 * (((a \div 128) + (b \div 128)) % 2)

\* binascii.crc32(data) & 0xFFFFFFFF, as the four bytes of
\* struct.pack(">I", ..): the reflected CRC-32 of polynomial 0xEDB88320,
\* with register and result inverted.  The register is kept as four bytes,
\* most significant first.
crc32_poly == <<237, 184, 131, 32>>
crc32_shift(c) ==
    LET r == <<c[1] \div 2,
               (c[1] % 2) * 128 + c[2] \div 2,
               (c[2] % 2) * 128 + c[3] \div 2,
               (c[3] % 2) * 128 + c[4] \div 2>>
    IN IF c[4] % 2 = 1
       THEN [i \in 1..4 |-> xor(r[i], crc32_poly[i])]
       ELSE r
RECURSIVE crc32_update(_, _, _)
crc32_update(c, data, i) ==
    IF i > Len(data) THEN c
    ELSE LET c0 == [c EXCEPT ![4] = xor(@, data[i])]
             c8 == crc32_shift(crc32_shift(crc32_shift(crc32_shift(
                   crc32_shift(crc32_shift(crc32_shift(crc32_shift(c0))))))))
         IN IF c8[1] \in 0..255 THEN crc32_update(c8, data, i + 1) ELSE c8
crc32_bytes(data) ==
    LET c == crc32_update(<<255, 255, 255, 255>>, data, 1)
    IN [i \in 1..4 |-> 255 - c[i]]

\* struct.pack(">H", n) and struct.unpack(">H", b)[0]
pack_H(n) == <<n \div 256, n % 256>>
unpack_H(b) == 256 * b[1] + b[2]

\* padding.PKCS7(128): the padder appends n bytes of value n, 1 <= n <= 16;
\* the unpadder's finalize() raises ValueError unless the data ends so.
PKCS7_pad(data) ==
    LET n == BlockLen - (Len(data) % BlockLen)
    IN data \o [i \in 1..n |-> n]
PKCS7_unpad(data) ==
    IF Len(data) = 0 \/ Len(data) % BlockLen # 0
    THEN [ok |-> FALSE, error |-> "ValueError"]
    ELSE LET n == data[Len(data)]
         IN IF n \notin 1..BlockLen
               \/ \E i \in (Len(data) - n + 1)..Len(data) : data[i] # n
            THEN [ok |-> FALSE, error |-> "ValueError"]
            ELSE [ok |-> TRUE, value |-> SubSeq(data, 1, Len(data) - n)]

\* AES under a 16-byte key is a permutation of the 16-byte blocks.  It is
\* given by its values on the blocks that the payloads of the model pad to,
\* under the two keys of the model: each pair is a block and the block
\* AES-128 encrypts it to.
DrawnKey == [i \in 1..KeyLen |-> 75]
\* under the key of _initial_keys
AES_default ==
    {<< <<123, 125, 14, 14, 14, 14, 14, 14, 14, 14, 14, 14, 14, 14, 14, 14>>,
        <<191, 127, 126, 249, 224, 138, 28, 206, 166, 250, 86, 53, 143, 183, 120, 155>> >>,
     << <<123, 125, 0, 13, 13, 13, 13, 13, 13, 13, 13, 13, 13, 13, 13, 13>>,
        <<147, 217, 164, 218, 87, 163, 245, 204, 56, 109, 246, 88, 1, 51, 249, 137>> >>,
     << <<123, 34, 115, 101, 114, 105, 97, 108, 34, 58, 32, 49, 50, 51, 125, 1>>,
        <<78, 23, 168, 72, 218, 154, 93, 81, 8, 110, 70, 189, 64, 173, 107, 227>> >>,
     << <<123, 34, 115, 101, 114, 105, 97, 108, 34, 58, 32, 49, 50, 51, 125, 0>>,
        <<99, 156, 46, 82, 182, 103, 155, 167, 211, 27, 206, 217, 234, 192, 189, 160>> >>,
     << <<16, 16, 16, 16, 16, 16, 16, 16, 16, 16, 16, 16, 16, 16, 16, 16>>,
        <<4, 175, 225, 120, 24, 194, 24, 46, 151, 78, 67, 163, 34, 242, 198, 173>> >>,
     << <<123, 34, 115, 101, 114, 105, 97, 108, 34, 58, 32, 50, 48, 54, 51, 54>>,
        <<27, 153, 123, 88, 129, 232, 42, 229, 190, 255, 139, 57, 253, 188, 52, 151>> >>,
     << <<125, 15, 15, 15, 15, 15, 15, 15, 15, 15, 15, 15, 15, 15, 15, 15>>,
        <<149, 6, 36, 253, 70, 219, 246, 67, 72, 151, 102, 84, 32, 234, 117, 168>> >>,
     << <<125, 0, 14, 14, 14, 14, 14, 14, 14, 14, 14, 14, 14, 14, 14, 14>>,
        <<69, 53, 223, 240, 109, 55, 55, 142, 192, 188, 17, 57, 187, 54, 243, 135>> >>,
     << <<123, 34, 115, 101, 114, 105, 97, 108, 34, 58, 32, 53, 52, 50, 52, 52>>,
        <<150, 77, 10, 130, 217, 120, 84, 41, 224, 130, 73, 42, 111, 236, 55, 48>> >>,
     << <<123, 125, 0, 0, 12, 12, 12, 12, 12, 12, 12, 12, 12, 12, 12, 12>>,
        <<55, 170, 90, 10, 245, 24, 78, 2, 109, 39, 30, 56, 202, 134, 203, 233>> >>,
     << <<111, 107, 14, 14, 14, 14, 14, 14, 14, 14, 14, 14, 14, 14, 14, 14>>,
        <<149, 141, 136, 254, 114, 138, 217, 184, 80, 91, 55, 2, 176, 237, 236, 70>> >>}
\* under DrawnKey
AES_drawn ==
    {<< <<123, 125, 14, 14, 14, 14, 14, 14, 14, 14, 14, 14, 14, 14, 14, 14>>,
        <<33, 38, 208, 150, 129, 150, 141, 210, 67, 91, 217, 101, 228, 54, 169, 86>> >>,
     << <<123, 125, 0, 13, 13, 13, 13, 13, 13, 13, 13, 13, 13, 13, 13, 13>>,
        <<13, 236, 211, 54, 61, 191, 105, 138, 57, 135, 168, 100, 240, 72, 254, 17>> >>,
     << <<123, 34, 115, 101, 114, 105, 97, 108, 34, 58, 32, 49, 50, 51, 125, 1>>,
        <<169, 35, 70, 179, 92, 235, 59, 247, 7, 166, 76, 97, 89, 168, 114, 240>> >>,
     << <<123, 34, 115, 101, 114, 105, 97, 108, 34, 58, 32, 49, 50, 51, 125, 0>>,
        <<113, 176, 118, 73, 27, 101, 95, 218, 5, 103, 71, 233, 149, 178, 129, 118>> >>,
     << <<16, 16, 16, 16, 16, 16, 16, 16, 16, 16, 16, 16, 16, 16, 16, 16>>,
        <<134, 196, 183, 6, 17, 74, 240, 10, 16, 189, 133, 158, 183, 29, 22, 11>> >>,
     << <<123, 34, 115, 101, 114, 105, 97, 108, 34, 58, 32, 50, 48, 54, 51, 54>>,
        <<125, 66, 46, 5, 227, 152, 44, 16, 234, 213, 169, 166, 252, 31, 160, 168>> >>,
     << <<125, 15, 15, 15, 15, 15, 15, 15, 15, 15, 15, 15, 15, 15, 15, 15>>,
        <<67, 162, 170, 157, 37, 66, 147, 158, 199, 197, 74, 21, 197, 122, 25, 57>> >>,
     << <<125, 0, 14, 14, 14, 14, 14, 14, 14, 14, 14, 14, 14, 14, 14, 14>>,
        <<138, 32, 46, 179, 220, 137, 165, 161, 169, 61, 245, 200, 220, 26, 81, 221>> >>,
     << <<123, 34, 115, 101, 114, 105, 97, 108, 34, 58, 32, 53, 52, 50, 52, 52>>,
        <<238, 229, 47, 187, 107, 125, 200, 108, 36, 132, 47, 134, 201, 5, 3, 194>> >>,
     << <<123, 125, 0, 0, 12, 12, 12, 12, 12, 12, 12, 12, 12, 12, 12, 12>>,
        <<122, 180, 26, 218, 128, 110, 173, 195, 174, 2, 23, 18, 208, 179, 137, 130>> >>,
     << <<111, 107, 14, 14, 14, 14, 14, 14, 14, 14, 14, 14, 14, 14, 14, 14>>,
        <<109, 216, 87, 173, 101, 32, 144, 225, 94, 215, 72, 60, 99, 223, 136, 212>> >>}
AES_table(key) ==
    IF key = DefaultKey THEN AES_default
    ELSE IF key = DrawnKey THEN AES_drawn ELSE {}
\* A block outside the table stands for bytes the model does not know; it
\* is kept apart from every byte string by the value 256.
Untabulated == [i \in 1..BlockLen |-> 256]
AES_block(key, block) ==
    IF \E r \in AES_table(key) : r[1] = block
    THEN (CHOOSE r \in AES_table(key) : r[1] = block)[2]
    ELSE Untabulated
AES_block_inverse(key, block) ==
    IF \E r \in AES_table(key) : r[2] = block
    THEN (CHOOSE r \in AES_table(key) : r[2] = block)[1]
    ELSE Untabulated
\* ECB: update() transforms the whole blocks of its input one by one and
\* keeps an incomplete last block back.
ECB(way, key, data) ==
    LET f(k, block) == IF way = "encryptor" THEN AES_block(k, block)
                       ELSE AES_block_inverse(k, block)
    IN [i \in 1..(BlockLen * (Len(data) \div BlockLen)) |->
          f(key, SubSeq(data, i - ((i - 1) % BlockLen),
                        i - ((i - 1) % BlockLen) + BlockLen - 1))
              [((i - 1) % BlockLen) + 1]]

\* json.dumps and json.loads on the messages of JsonMsgs: the text of a
\* message is the one json.dumps writes; json.loads raises
\* json.JSONDecodeError, a ValueError, on any other text.
JsonText ==
    {<<EmptyDict, <<123, 125>> >>,
     <<[x \in {"serial"} |-> 123],
       <<123, 34, 115, 101, 114, 105, 97, 108, 34, 58, 32, 49, 50, 51, 125>> >>,
     <<[x \in {"serial"} |-> 20636],
       <<123, 34, 115, 101, 114, 105, 97, 108, 34, 58, 32, 50, 48, 54, 51, 54,
         125>> >>,
     <<[x \in {"serial"} |-> 54244],
       <<123, 34, 115, 101, 114, 105, 97, 108, 34, 58, 32, 53, 52, 50, 52, 52,
         125>> >>}
JsonMsgs == {p[1] : p \in JsonText}
json_dumps(msg) == (CHOOSE p \in JsonText : p[1] = msg)[2]
json_loads(text) ==
    IF \E p \in JsonText : p[2] = text
    THEN [ok |-> TRUE, value |-> (CHOOSE p \in JsonText : p[2] = text)[1]]
    ELSE [ok |-> FALSE, error |-> "ValueError"]
\* bytes.decode("utf-8") raises UnicodeDecodeError, a ValueError; every
\* text of the model is ASCII
decode_utf8(data) ==
    IF \E i \in 1..Len(data) : data[i] > 127
    THEN [ok |-> FALSE, error |-> "ValueError"]
    ELSE [ok |-> TRUE, value |-> data]

\* encrypt_payload(key, payload), payload a str
encrypt_payload_bytes(key, payload) ==
    ECB("encryptor", key, PKCS7_pad(payload))

\* mutant: the trailing null byte is left in the text
decrypt_payload_bytes_keeps_null(key, encrypted_payload) ==
    LET unpad == PKCS7_unpad(ECB("decryptor", key, encrypted_payload))
    IN IF ~unpad.ok THEN unpad
       ELSE IF Len(unpad.value) = 0
       THEN [ok |-> FALSE, error |-> "IndexError"]
       ELSE LET text == decode_utf8(unpad.value)
            IN IF ~text.ok THEN text ELSE json_loads(text.value)

\* decrypt_payload(key, encrypted_payload): the parsed message, or the
\* exception raised
decrypt_payload_bytes(key, encrypted_payload) ==
    LET unpad == PKCS7_unpad(ECB("decryptor", key, encrypted_payload))
    IN IF ~unpad.ok THEN unpad
       ELSE IF Len(unpad.value) = 0
       THEN [ok |-> FALSE, error |-> "IndexError"]
       ELSE LET u == unpad.value
                stripped == IF u[Len(u)] = 0
                            THEN SubSeq(u, 1, Len(u) - 1) ELSE u
                text == decode_utf8(stripped)
            IN IF ~text.ok THEN text ELSE json_loads(text.value)

\* build_packet(packet_type, key, switch_id, payload), payload a message
build_packet_bytes(packet_type, key, switch_id, payload) ==
    LET encrypted_payload == encrypt_payload_bytes(key, json_dumps(payload))
        crc == crc32_bytes(encrypted_payload)
        length == pack_H(Len(encrypted_payload)
                         + Len(MAGIC \o packet_type \o crc \o switch_id) + 2)
    IN MAGIC \o length \o packet_type \o crc \o switch_id
       \o encrypted_payload

\* mutant: the CRC field of a frame is not compared
HomematePacket_bytes_no_crc(data, keys) ==
    IF SubSeq(data, 1, 2) # MAGIC
    THEN [ok |-> FALSE, error |-> "AssertionError"]
    ELSE IF Len(data) < 10 THEN [ok |-> FALSE, error |-> "struct.error"]
    ELSE IF unpack_H(SubSeq(data, 3, 4)) # Len(data)
    THEN [ok |-> FALSE, error |-> "AssertionError"]
    ELSE IF SubSeq(data, 5, 6) \notin {PACKET_PK, PACKET_DK}
    THEN [ok |-> FALSE, error |-> "AssertionError"]
    ELSE IF data[5] \notin DOMAIN keys
    THEN [ok |-> FALSE, error |-> "KeyError"]
    ELSE LET dec == decrypt_payload_bytes(keys[data[5]],
                                          SubSeq(data, 43, Len(data)))
         IN IF ~dec.ok THEN dec
            ELSE [ok |-> TRUE, packet_type |-> SubSeq(data, 5, 6),
                  switch_id |-> SubSeq(data, 11, 42),
                  json_payload |-> dec.value]

\* HomematePacket(data, keys) on the bytes of a frame; data[a:b] of the
\* code is SubSeq(data, a + 1, b).  struct.unpack raises struct.error on a
\* slice that is too short.
HomematePacket_bytes(data, keys) ==
    IF SubSeq(data, 1, 2) # MAGIC
    THEN [ok |-> FALSE, error |-> "AssertionError"]
    ELSE IF Len(data) < 10 THEN [ok |-> FALSE, error |-> "struct.error"]
    ELSE IF unpack_H(SubSeq(data, 3, 4)) # Len(data)
    THEN [ok |-> FALSE, error |-> "AssertionError"]
    ELSE IF SubSeq(data, 5, 6) \notin {PACKET_PK, PACKET_DK}
    THEN [ok |-> FALSE, error |-> "AssertionError"]
    ELSE IF crc32_bytes(SubSeq(data, 43, Len(data))) # SubSeq(data, 7, 10)
    THEN [ok |-> FALSE, error |-> "AssertionError"]
    ELSE IF data[5] \notin DOMAIN keys
    THEN [ok |-> FALSE, error |-> "KeyError"]
    ELSE LET dec == decrypt_payload_bytes(keys[data[5]],
                                          SubSeq(data, 43, Len(data)))
         IN IF ~dec.ok THEN dec
            ELSE [ok |-> TRUE, packet_type |-> SubSeq(data, 5, 6),
                  switch_id |-> SubSeq(data, 11, 42),
                  json_payload |-> dec.value]

(***************************************************************************)
(* HomemateTCPHandler: the fields __init__ sets.                           *)
(***************************************************************************)
NewHandler ==
    [switch_id |-> Unset,
     keys |-> _initial_keys,
     device_name |-> Unset,
     softwareVersion |-> None,
     hardwareVersion |-> None,
     language |-> None,
     modelId |-> None,
     switch_on |-> None,
     serial |-> 0,
     uid |-> None,
     moving |-> 0,
     position |-> 0,
     hass_light |-> None,
     hass_cover |-> None,
     callbacks |-> {}]

\* mutant: the handler's key table is the class's dict, not a copy of it
shared_keys_aliased(shared, keys) == keys

\* HomemateTCPHandler.__init__ (line 137): the handler's key table is a new
\* dict with the items of the class's dict; shared_keys: the class's dict
\* after the handler wrote keys, its own table, which leaves the class's
\* dict as it was.
shared_keys(shared, keys) == shared
__init__(shared) == [NewHandler EXCEPT !.keys = shared]

\* A handler's result: the handler after the call, whether it returned a
\* response (responds = FALSE: it returned None), the response payload, the
\* exception raised (None: returned normally) and the callbacks to iterate.
Result(self, responds, response, error, order) ==
    [self |-> self, responds |-> responds, response |-> response,
     error |-> error, order |-> order]

handle_default(self, packet) == Result(self, TRUE, EmptyDict, None, <<>>)

\* mutant: every hello draws and stores a new key
handle_hello_new_key(self, packet, key) ==
    Result([self EXCEPT !.keys = Put(@, TYPE_DK, key)], TRUE,
           [x \in {"key"} |-> key], None, <<>>)

\* key: the 16 random characters drawn when no 0x64 key exists yet
handle_hello(self, packet, key) ==
    LET p == packet.json_payload
        s1 == [self EXCEPT !.softwareVersion = Get(p, "softwareVersion"),
                           !.hardwareVersion = Get(p, "hardwareVersion"),
                           !.language = Get(p, "language"),
                           !.modelId = Get(p, "modelId")]
    IN IF TYPE_DK \notin DOMAIN s1.keys
       THEN Result([s1 EXCEPT !.keys = Put(@, TYPE_DK, key)], TRUE,
                   [x \in {"key"} |-> key], None, <<>>)
       ELSE Result(s1, TRUE, [x \in {"key"} |-> s1.keys[TYPE_DK]], None, <<>>)

handle_heartbeat(self, packet) ==
    LET p == packet.json_payload
    IN IF ~Has(p, "uid") THEN Result(self, FALSE, EmptyDict, "KeyError", <<>>)
       ELSE Result([self EXCEPT !.uid = p["uid"]], TRUE,
                   [x \in {"utc"} |-> "now"], None, <<>>)

\* The fields a callback (an entity's async_write_ha_state) reads.
Snapshot(self) ==
    [switch_on |-> self.switch_on, moving |-> self.moving,
     position |-> self.position]

\* mutant: the two directions of the motor are taken for one another
handle_state_update_swapped(self, packet, order) ==
    LET p == packet.json_payload
    IN IF ~Has(p, "lightingState") \/ ~Has(p, "motorState")
          \/ ~Has(p, "motorPosition")
       THEN Result(self, FALSE, EmptyDict, "KeyError", <<>>)
       ELSE Result([self EXCEPT
                       !.switch_on =
                           IF p["lightingState"] = "on" THEN True ELSE False,
                       !.moving =
                           IF p["motorState"] = "goingDown" THEN 1
                           ELSE IF p["motorState"] = "goingUp" THEN -1 ELSE 0,
                       !.position = p["motorPosition"]],
                   FALSE, EmptyDict, None, order)

\* The assignments of handle_state_update, up to the loop over the
\* callbacks; order: the order in which the set of callbacks is iterated.
handle_state_update(self, packet, order) ==
    LET p == packet.json_payload
    IN IF ~Has(p, "lightingState")
       THEN Result(self, FALSE, EmptyDict, "KeyError", <<>>)
       ELSE
       LET s1 == [self EXCEPT !.switch_on =
                      IF p["lightingState"] = "on" THEN True ELSE False]
       IN IF ~Has(p, "motorState")
          THEN Result(s1, FALSE, EmptyDict, "KeyError", <<>>)
          ELSE
          LET s2 == [s1 EXCEPT !.moving =
                         IF p["motorState"] = "goingDown" THEN -1
                         ELSE IF p["motorState"] = "goingUp" THEN 1 ELSE 0]
          IN IF ~Has(p, "motorPosition")
             THEN Result(s2, FALSE, EmptyDict, "KeyError", <<>>)
             ELSE Result([s2 EXCEPT !.position = p["motorPosition"]],
                         FALSE, EmptyDict, None, order)

device_name_of(ip) == <<"Homemate Device ", ip>>

\* mutant: a settings entry without a name leaves the name of the peer address
handle_handshake_peer_ip(self, packet, client_ip, device_settings) ==
    LET p == packet.json_payload
        s1 == [self EXCEPT !.uid = Get(p, "uid"),
                           !.device_name = device_name_of(client_ip)]
        s2 == IF Has(p, "localIp") /\ p["localIp"] \in DOMAIN device_settings
                 /\ Has(device_settings[p["localIp"]], "name")
              THEN [s1 EXCEPT !.device_name =
                       <<device_settings[p["localIp"]]["name"]>>]
              ELSE s1
    IN Result(s2, TRUE, EmptyDict, None, <<>>)

handle_handshake(self, packet, client_ip, device_settings) ==
    LET p == packet.json_payload
        s1 == [self EXCEPT !.uid = Get(p, "uid"),
                           !.device_name = device_name_of(client_ip)]
        s2 == IF Has(p, "localIp") /\ p["localIp"] \in DOMAIN device_settings
              THEN LET localip == p["localIp"]
                       settings == device_settings[localip]
                   IN IF ~Has(settings, "name")
                      THEN [s1 EXCEPT !.device_name = device_name_of(localip)]
                      ELSE [s1 EXCEPT !.device_name = <<settings["name"]>>]
              ELSE s1
    IN Result(s2, TRUE, EmptyDict, None, <<>>)

\* mutant: the reply carries a uid field whatever the inbound message held
format_response_uid_always(packet, response_payload) ==
    LET p == packet.json_payload
        r1 == Put(response_payload, "cmd", p["cmd"])
        r2 == Put(r1, "serial", p["serial"])
        r3 == Put(r2, "status", 0)
    IN Put(r3, "uid", Get(p, "uid"))

format_response(packet, response_payload) ==
    LET p == packet.json_payload
        r1 == Put(response_payload, "cmd", p["cmd"])
        r2 == Put(r1, "serial", p["serial"])
        r3 == Put(r2, "status", 0)
    IN IF Has(p, "uid") THEN Put(r3, "uid", p["uid"]) ELSE r3

cmd_handlers == {CMD_HELLO, CMD_HEARTBEAT, CMD_STATE_UPDATE, CMD_HANDSHAKE}

\* mutant: the id is taken from every frame, not only the first
assign_id_every_frame(self, packet, new_id) ==
    IF packet.switch_id = ID_UNSET
    THEN [self EXCEPT !.switch_id = new_id]
    ELSE [self EXCEPT !.switch_id = packet.switch_id]

\* lines 258-269 of handle: the ID field.  new_id: the 32 random characters.
assign_id(self, packet, new_id) ==
    IF self.switch_id = Unset /\ packet.switch_id = ID_UNSET
    THEN [self EXCEPT !.switch_id = new_id]
    ELSE IF self.switch_id = Unset
         THEN [self EXCEPT !.switch_id = packet.switch_id]
         ELSE self

\* mutant: a cmd without a handler is acknowledged, whatever it is
dispatch_ack_all(self, packet, key, order, client_ip, device_settings) ==
    LET cmd == packet.json_payload["cmd"]
    IN IF cmd \in cmd_handlers
       THEN CASE cmd = CMD_HELLO -> handle_hello(self, packet, key)
              [] cmd = CMD_HEARTBEAT -> handle_heartbeat(self, packet)
              [] cmd = CMD_STATE_UPDATE -> handle_state_update(self, packet, order)
              [] cmd = CMD_HANDSHAKE ->
                     handle_handshake(self, packet, client_ip, device_settings)
       ELSE handle_default(self, packet)

\* lines 274-279 of handle: the dispatch on cmd.
dispatch(self, packet, key, order, client_ip, device_settings) ==
    LET cmd == packet.json_payload["cmd"]
    IN IF cmd \in cmd_handlers
       THEN CASE cmd = CMD_HELLO -> handle_hello(self, packet, key)
              [] cmd = CMD_HEARTBEAT -> handle_heartbeat(self, packet)
              [] cmd = CMD_STATE_UPDATE -> handle_state_update(self, packet, order)
              [] cmd = CMD_HANDSHAKE ->
                     handle_handshake(self, packet, client_ip, device_settings)
       ELSE IF cmd \notin CMD_SERVER_SENDS
            THEN handle_default(self, packet)
            ELSE Result(self, FALSE, EmptyDict, None, <<>>)

\* lines 248-289 of handle: one received frame, up to the built response.
\* error: the exception that ends the loop (None: none); responds: a
\* response_packet is to be sent.
\* mutant: the device id is assigned from the frame's header before the
\* frame is decoded
handle_frame_id_first(self, data, new_id, key, order, client_ip, device_settings) ==
    LET packet == HomematePacket(strip(data), self.keys)
        s1 == assign_id(self, strip(data), new_id)
        fail(slf, err) ==
            [self |-> slf, error |-> err, packet |-> packet, responds |-> FALSE,
             response_packet |-> data, order |-> <<>>]
    IN IF ~packet.ok THEN fail(s1, packet.error)
       ELSE IF ~Has(packet.json_payload, "cmd")
               \/ ~Has(packet.json_payload, "serial")
       THEN fail(s1, "AssertionError")
       ELSE
       LET r == dispatch(s1, packet, key, order, client_ip, device_settings)
       IN IF r.error # None THEN fail(r.self, r.error)
          ELSE [self |-> r.self, error |-> None, packet |-> packet,
                responds |-> r.responds,
                response_packet |->
                    IF r.responds
                    THEN build_packet(packet.packet_type,
                                      r.self.keys[packet.packet_type[1]],
                                      r.self.switch_id,
                                      format_response(packet, r.response))
                    ELSE data,
                order |-> r.order]

\* mutant: cmd and serial are asserted after the command handler ran
handle_frame_assert_late(self, data, new_id, key, order, client_ip, device_settings) ==
    LET packet == HomematePacket(strip(data), self.keys)
        fail(slf, err) ==
            [self |-> slf, error |-> err, packet |-> packet, responds |-> FALSE,
             response_packet |-> data, order |-> <<>>]
    IN IF ~packet.ok THEN fail(self, packet.error)
       ELSE
       LET s1 == assign_id(self, packet, new_id)
       IN IF ~Has(packet.json_payload, "cmd") THEN fail(s1, "KeyError")
          ELSE
          LET r == dispatch(s1, packet, key, order, client_ip, device_settings)
          IN IF r.error # None THEN fail(r.self, r.error)
             ELSE IF ~Has(packet.json_payload, "serial")
             THEN fail(r.self, "AssertionError")
             ELSE [self |-> r.self, error |-> None, packet |-> packet,
                   responds |-> r.responds,
                   response_packet |->
                       IF r.responds
                       THEN build_packet(packet.packet_type,
                                         r.self.keys[packet.packet_type[1]],
                                         r.self.switch_id,
                                         format_response(packet, r.response))
                       ELSE data,
                   order |-> r.order]

\* One pass of handle()'s loop body after recv, up to the response frame.
handle_frame(self, data, new_id, key, order, client_ip, device_settings) ==
    LET packet == HomematePacket(strip(data), self.keys)
        fail(slf, err) ==
            [self |-> slf, error |-> err, packet |-> packet, responds |-> FALSE,
             response_packet |-> data, order |-> <<>>]
    IN IF ~packet.ok THEN fail(self, packet.error)
       ELSE
       LET s1 == assign_id(self, packet, new_id)
       IN IF ~Has(packet.json_payload, "cmd") \/ ~Has(packet.json_payload, "serial")
          THEN fail(s1, "AssertionError")
          ELSE
          LET r == dispatch(s1, packet, key, order, client_ip, device_settings)
          IN IF r.error # None THEN fail(r.self, r.error)
             ELSE [self |-> r.self, error |-> None, packet |-> packet,
                   responds |-> r.responds,
                   response_packet |->
                       IF r.responds
                       THEN build_packet(packet.packet_type,
                                         r.self.keys[packet.packet_type[1]],
                                         r.self.switch_id,
                                         format_response(packet, r.response))
                       ELSE data,
                   order |-> r.order]

\* mutant: every heartbeat puts the handler on the queues
push_kinds_every_heartbeat(self, packet) ==
    IF packet.json_payload["cmd"] = CMD_HEARTBEAT THEN {"light", "cover"} ELSE {}

\* lines 299-314 of handle: the kinds of entity queue the handler is put on
\* after this packet.
push_kinds(self, packet) ==
    (IF self.hass_light = None /\ packet.json_payload["cmd"] = CMD_HEARTBEAT
     THEN {"light"} ELSE {})
    \cup
    (IF self.hass_cover = None /\ packet.json_payload["cmd"] = CMD_HEARTBEAT
     THEN {"cover"} ELSE {})

\* mutant: the light directive is not guarded by the unknown power state
control_type_unguarded(self, new_state) ==
    IF Has(new_state, "light") THEN "lightingCtrl"
    ELSE IF Has(new_state, "cover") THEN "motorCtrl" ELSE None

\* lines 172-181 of order_state_change: None when the call returns at once
control_type_of(self, new_state) ==
    IF Has(new_state, "light")
    THEN (IF self.switch_on = None THEN None ELSE "lightingCtrl")
    ELSE IF Has(new_state, "cover") THEN "motorCtrl" ELSE None

\* mutant: the serial is left as it was
next_serial_same(serial) == serial

\* line 201 of order_state_change: self.serial += 1
next_serial(serial) == serial + 1

\* order_state_change, lines 170-208: up to the built packet.
\* outcome: "return" (a no-op), an exception, or "send".
order_state_change(self, new_state) ==
    LET control_type == control_type_of(self, new_state)
        state_value ==
            IF Has(new_state, "light") THEN new_state["light"]
            ELSE IF Has(new_state, "cover") THEN new_state["cover"] ELSE None
        none == [self |-> self, outcome |-> "return", packet |-> EmptyDict]
    IN IF control_type = None THEN none
       ELSE IF self.switch_id = Unset
            THEN [none EXCEPT !.outcome = "AttributeError"]
       ELSE
       LET payload ==
               [x \in {"uid", "clientSessionId", "ver", "clientType", "serial",
                       "fromMq", control_type, "cmd", "debugInfo", "userName",
                       "deviceId", "respByAcc"} |->
                   CASE x = "uid" -> self.uid
                     [] x = "clientSessionId" -> self.switch_id
                     [] x = "ver" -> "4.9.22.308"
                     [] x = "clientType" -> 1
                     [] x = "serial" -> self.serial
                     [] x = "fromMq" -> "true"
                     [] x = control_type -> state_value
                     [] x = "cmd" -> CMD_ORDER
                     [] x = "debugInfo" -> "Android_ZhiJia365_30_4.9.22.308"
                     [] x = "userName" -> "a387fe7994e54e0095e8666a32cfd50a"
                     [] x = "deviceId" -> self.switch_id
                     [] x = "respByAcc" -> "false"]
           s1 == [self EXCEPT !.serial = next_serial(@)]
       IN IF TYPE_DK \notin DOMAIN s1.keys
          THEN [self |-> s1, outcome |-> "KeyError", packet |-> EmptyDict]
          ELSE [self |-> s1, outcome |-> "send",
                packet |-> build_packet(PACKET_DK, s1.keys[TYPE_DK],
                                        s1.switch_id, payload)]

(***************************************************************************)
(* The inputs: what a device may send, and the random draws.               *)
(***************************************************************************)
Sessions == {"h1", "h2"}
Kinds == {"light", "cover"}
Uids == {"u1"}
Serials == {1, 2}

\* a non-zero device id a device declares
DeclaredId == [i \in 1..IdLen |-> 171]
DeviceIds == {ID_UNSET, DeclaredId}
\* draws of the 32 random characters of a new id
NewIds == {[i \in 1..IdLen |-> IF i % 2 = 1 THEN 97 ELSE 55]}
\* draws of the 16 random characters of a new key
NewKeys == {[i \in 1..KeyLen |-> c] : c \in {75, 113}}

\* the peer address of a connection
client_address == [s \in Sessions |-> "192.0.2.7"]

Msg(cmd, serial) == [x \in {"cmd", "serial"} |-> IF x = "cmd" THEN cmd ELSE serial]
With(m, k, v) == Put(m, k, v)

HelloMsgs ==
    {With(With(With(With(Msg(CMD_HELLO, 1), "softwareVersion", "v1"),
          "hardwareVersion", "hw1"), "language", "en"), "modelId", "m1")}
HandshakeMsgs ==
    {Msg(CMD_HANDSHAKE, 1),
     With(With(Msg(CMD_HANDSHAKE, 2), "uid", "u1"), "localIp", "10.0.0.5")}
HeartbeatMsgs ==
    {Msg(CMD_HEARTBEAT, 1), With(Msg(CMD_HEARTBEAT, 2), "uid", "u1")}
StateMsg(l, m, p) ==
    With(With(With(Msg(CMD_STATE_UPDATE, 1), "lightingState", l),
         "motorState", m), "motorPosition", p)
StateUpdateMsgs ==
    {StateMsg("on", "goingUp", 40), StateMsg("off", "goingDown", 60),
     StateMsg("off", "stop", 40),
     With(With(Msg(CMD_STATE_UPDATE, 1), "lightingState", "on"),
          "motorState", "goingDown")}
OtherMsgs ==
    {Msg(7, 1), With(Msg(7, 2), "uid", "u1"), Msg(15, 1),
     With(Msg(CMD_ORDER, 2), "uid", "u1")}
MalformedMsgs ==
    {[x \in {"serial"} |-> 1], [x \in {"cmd"} |-> CMD_HEARTBEAT],
     With([x \in {"cmd"} |-> CMD_HEARTBEAT], "uid", "u1")}
Msgs ==
    HelloMsgs \cup HandshakeMsgs \cup HeartbeatMsgs \cup StateUpdateMsgs
    \cup OtherMsgs \cup MalformedMsgs

\* A device frames its messages as the bridge does.
GoodFrames ==
    {build_packet(PACKET_PK, DefaultKey, ID_UNSET, m) : m \in Msgs}
    \cup
    {build_packet(PACKET_PK, DefaultKey, DeclaredId, m) :
        m \in HelloMsgs \cup {With(Msg(CMD_HEARTBEAT, 2), "uid", "u1")}}
    \cup
    {build_packet(PACKET_DK, k, DeclaredId, m) :
        k \in NewKeys, m \in {With(Msg(CMD_HEARTBEAT, 2), "uid", "u1"), Msg(7, 1)}}
BadFrames ==
    LET f == build_packet(PACKET_PK, DefaultKey, ID_UNSET, Msg(CMD_HEARTBEAT, 1))
    IN {[f EXCEPT !.magic = <<0, 0>>],
        [f EXCEPT !.length = @ - 1],
        [f EXCEPT !.packet_type = <<0, 0>>],
        [f EXCEPT !.crc = crc32([f.payload EXCEPT !.key = <<>>])],
        [f EXCEPT !.ws = 1],
        [build_packet(PACKET_PK, DefaultKey, ID_UNSET, Msg(7, 7))
            EXCEPT !.ws = 1],
        build_packet(PACKET_PK, [i \in 1..KeyLen |-> 0], ID_UNSET,
                     Msg(CMD_HEARTBEAT, 1))}
Frames == GoodFrames \cup BadFrames

(***************************************************************************)
(* The state.                                                              *)
(***************************************************************************)
VARIABLES
    thread,          \* where each connection's thread is
    handler,         \* the fields of each HomemateTCPHandler
    local,           \* the locals of handle() the thread still needs
    nframes,         \* frames each connection has received
    sock,            \* each connection's socket
    handlers,        \* hass.data[DOMAIN][DATA_HANDLERS]
    queues,          \* hass.data[DOMAIN][DATA_HANDLER_QUEUES]
    entities,        \* each EntityUpdater's entities, by uid
    loop,            \* where the event loop is
    called,          \* the last order_state_change call and its outcome
    device_settings, \* hass.data[DOMAIN][CONF_DEVICES]
    codec,           \* a call of HomematePacket's functions on bytes
    class_keys       \* HomemateTCPHandler._initial_keys, the class's dict

vars == <<thread, handler, local, nframes, sock, handlers, queues, entities,
          loop, called, device_settings, codec, class_keys>>

NoLocal == [packet |-> EmptyDict, response_packet |-> EmptyDict,
            iter |-> <<>>, start |-> {}, done |-> <<>>]

NoSock == [open |-> FALSE, wire |-> <<>>, orders |-> <<>>]
\* todo: the handlers async_unload_entry still has to close
Idle == [at |-> "idle", handler |-> None, packet |-> EmptyDict, todo |-> {}]
NoState == [switch_on |-> "unwritten", moving |-> 0, position |-> 0]
NoCall == [handler |-> None, outcome |-> None]

\* the state after async_setup_entry, with settings for
\* hass.data[DOMAIN][CONF_DEVICES]
Setup(settings) ==
    /\ class_keys = _initial_keys
    /\ thread = [s \in Sessions |-> "unborn"]
    /\ handler = [s \in Sessions |-> NewHandler]
    /\ local = [s \in Sessions |-> NoLocal]
    /\ nframes = [s \in Sessions |-> 0]
    /\ sock = [s \in Sessions |-> NoSock]
    /\ handlers = {}
    /\ queues = [k \in Kinds |-> <<>>]
    /\ entities = [k \in Kinds |-> EmptyDict]
    /\ loop = Idle
    /\ called = NoCall
    /\ device_settings = settings

\* async_setup_entry leaves the device settings empty (line 104)
Started == Setup(EmptyDict)

NoResult == [ok |-> FALSE, error |-> None]
NoCodec ==
    [at |-> "off", packet_type |-> <<>>, key |-> <<>>, switch_id |-> <<>>,
     text |-> <<>>, msg |-> EmptyDict, data |-> <<>>, altered |-> "no",
     result |-> NoResult]

Init == Started /\ codec = NoCodec

(***************************************************************************)
(* The socket: sendall puts a frame on the wire in two parts; the device   *)
(* takes the bytes off the wire once no frame is left half written.        *)
(***************************************************************************)
Chunk(by, part) == [by |-> by, part |-> part]
Parts(w, by, part) ==
    Cardinality({i \in 1..Len(w) : w[i].by = by /\ w[i].part = part})
\* the writers with a frame half written
Writing(w) ==
    {by \in {"handle", "order"} : Parts(w, by, "head") > Parts(w, by, "tail")}
sendall_begin(so, by) == [so EXCEPT !.wire = Append(@, Chunk(by, "head"))]
sendall_end(so, by) ==
    LET w == Append(so.wire, Chunk(by, "tail"))
    IN [so EXCEPT !.wire = IF Writing(w) = {} THEN <<>> ELSE w]

\* The permutations of a set, as sequences.
Orders(S) ==
    {o \in [1..Cardinality(S) -> S] : \A i, j \in 1..Cardinality(S) :
                                         i # j => o[i] # o[j]}

(***************************************************************************)
(* The connection threads.                                                 *)
(***************************************************************************)
\* The server accepts a connection: __init__, then handle() up to its loop.
Accept(s) ==
    /\ thread[s] = "unborn"
    /\ thread' = [thread EXCEPT ![s] = "recv"]
    /\ handler' = [handler EXCEPT ![s] = __init__(class_keys)]
    /\ sock' = [sock EXCEPT ![s] = [NoSock EXCEPT !.open = TRUE]]
    /\ handlers' = handlers \cup {s}
    /\ UNCHANGED <<local, nframes, queues, entities, loop, called,
                   device_settings, codec, class_keys>>

\* mutant: a connection that ends takes every handler out of the registry
Leave_all(s) ==
    /\ thread' = [thread EXCEPT ![s] = "finished"]
    /\ local' = [local EXCEPT ![s] = NoLocal]
    /\ handlers' = {}

\* mutant: finish() leaves the handler in the registry
Leave_registered(s) ==
    /\ thread' = [thread EXCEPT ![s] = "finished"]
    /\ local' = [local EXCEPT ![s] = NoLocal]
    /\ handlers' = handlers

\* handle() is left, by break or by an exception: finish(), and the server
\* closes the request.
Leave(s) ==
    /\ thread' = [thread EXCEPT ![s] = "finished"]
    /\ local' = [local EXCEPT ![s] = NoLocal]
    /\ handlers' = handlers \ {s}

\* lines 299-314 and back to recv
Loop(s, self, packet) ==
    LET kinds == push_kinds(self, packet)
    IN /\ handler' = [handler EXCEPT ![s] =
                         [self EXCEPT
                            !.hass_light = IF "light" \in kinds THEN s ELSE @,
                            !.hass_cover = IF "cover" \in kinds THEN s ELSE @]]
       /\ queues' = [k \in Kinds |->
                        IF k \in kinds THEN Append(queues[k], s) ELSE queues[k]]
       /\ thread' = [thread EXCEPT ![s] = "recv"]
       /\ local' = [local EXCEPT ![s] = NoLocal]

\* One frame is received and handled, up to the first blocking point after
\* it: the next recv, sendall, or the first callback.
Recv(s, data) ==
    /\ thread[s] = "recv"
    /\ sock[s].open
    /\ nframes[s] < MaxFrames
    /\ nframes' = [nframes EXCEPT ![s] = @ + 1]
    /\ \E new_id \in IF handler[s].switch_id = Unset
                     THEN NewIds ELSE {CHOOSE x \in NewIds : TRUE} :
       \E key \in IF TYPE_DK \in DOMAIN handler[s].keys
                  THEN {CHOOSE x \in NewKeys : TRUE} ELSE NewKeys :
       \E order \in Orders(handler[s].callbacks) :
         LET r == handle_frame(handler[s], data, new_id, key, order,
                               client_address[s], device_settings)
         IN IF r.error # None
            THEN /\ Leave(s)
                 /\ handler' = [handler EXCEPT ![s] = r.self]
                 /\ sock' = [sock EXCEPT ![s].open = FALSE]
                 /\ UNCHANGED queues
            ELSE IF r.responds
            THEN /\ handler' = [handler EXCEPT ![s] = r.self]
                 /\ sock' = [sock EXCEPT ![s] = sendall_begin(@, "handle")]
                 /\ thread' = [thread EXCEPT ![s] = "sendall"]
                 /\ local' = [local EXCEPT ![s] =
                                 [NoLocal EXCEPT
                                    !.packet = r.packet,
                                    !.response_packet = r.response_packet]]
                 /\ UNCHANGED <<queues, handlers>>
            ELSE IF r.packet.json_payload["cmd"] = CMD_STATE_UPDATE
            THEN /\ handler' = [handler EXCEPT ![s] = r.self]
                 /\ thread' = [thread EXCEPT ![s] = "callbacks"]
                 /\ local' = [local EXCEPT ![s] =
                                 [NoLocal EXCEPT
                                    !.packet = r.packet,
                                    !.iter = r.order,
                                    !.start = handler[s].callbacks]]
                 /\ UNCHANGED <<queues, handlers, sock>>
            ELSE /\ Loop(s, r.self, r.packet)
                 /\ UNCHANGED <<handlers, sock>>
    /\ class_keys' = shared_keys(class_keys, handler'[s].keys)
    /\ UNCHANGED <<entities, loop, called, device_settings, codec>>

\* recv returns b"": the device closed the connection.
PeerCloses(s) ==
    /\ thread[s] = "recv"
    /\ sock[s].open
    /\ Leave(s)
    /\ sock' = [sock EXCEPT ![s].open = FALSE]
    /\ UNCHANGED <<handler, nframes, queues, entities, loop, called,
                   device_settings, codec, class_keys>>

\* recv raises socket.timeout after 30 minutes of silence.
RecvTimesOut(s) ==
    /\ thread[s] = "recv"
    /\ sock[s].open
    /\ Leave(s)
    /\ sock' = [sock EXCEPT ![s].open = FALSE]
    /\ UNCHANGED <<handler, nframes, queues, entities, loop, called,
                   device_settings, codec, class_keys>>

\* sendall of the response returns; lines 298-314.
Replied(s) ==
    /\ thread[s] = "sendall"
    /\ sock[s].open
    /\ sock' = [sock EXCEPT ![s] = sendall_end(@, "handle")]
    /\ Loop(s, handler[s], local[s].packet)
    /\ UNCHANGED <<nframes, handlers, entities, loop, called, device_settings, codec, class_keys>>

\* An entity's async_write_ha_state: the host reads the entity's properties,
\* which read the entity's handler.
async_write_ha_state(ents, hs, cb) ==
    LET kind == cb[1]
        uid == cb[2]
    IN [ents EXCEPT ![kind][uid].state = Snapshot(hs[ents[kind][uid].handler])]

\* One step of "for callback in self._callbacks: callback()" (lines 376-377):
\* the set iterator raises when the set's size changed under it, else yields
\* the next callback or ends the loop.  A callback added meanwhile (by the
\* event loop, with another one removed) may be yielded or not.
Callback(s) ==
    /\ thread[s] = "callbacks"
    /\ LET cur == handler[s].callbacks
           rest == SelectSeq(local[s].iter, LAMBDA c : c \in cur)
           new == (cur \ local[s].start)
                  \ {local[s].done[i] : i \in 1..Len(local[s].done)}
           visit(cb, left) ==
               /\ entities' = async_write_ha_state(entities, handler, cb)
               /\ local' = [local EXCEPT ![s].iter = left,
                                         ![s].done = Append(@, cb)]
               /\ UNCHANGED <<thread, handler, handlers, sock, queues>>
       IN IF Cardinality(cur) # Cardinality(local[s].start)
          THEN /\ Leave(s)
               /\ sock' = [sock EXCEPT ![s].open = FALSE]
               /\ UNCHANGED <<handler, queues, entities>>
          ELSE \/ /\ rest # <<>>
                  /\ visit(Head(rest), Tail(rest))
               \/ /\ \E cb \in new : visit(cb, rest)
               \/ /\ rest = <<>>
                  /\ Loop(s, handler[s], local[s].packet)
                  /\ UNCHANGED <<handlers, sock, entities>>
    /\ UNCHANGED <<nframes, loop, called, device_settings, codec, class_keys>>

(***************************************************************************)
(* The event loop: the entity updaters, the entities and their services.   *)
(* A coroutine runs alone up to its next await; sendall blocks the loop.   *)
(***************************************************************************)
Callback_of(kind, uid) == <<kind, uid>>
register_callback(self, callback) ==
    [self EXCEPT !.callbacks = @ \cup {callback}]
remove_callback(self, callback) ==
    [self EXCEPT !.callbacks = @ \ {callback}]

\* mutant: the entity's callback stays registered on the old handler
update_handler_keeps_old(hs, ents, kind, uid, new) ==
    [hs EXCEPT ![new] = register_callback(@, Callback_of(kind, uid))]

\* HomemateEntity.update_handler on the entity kept under uid
update_handler(hs, ents, kind, uid, new) ==
    LET cb == Callback_of(kind, uid)
        old == ents[kind][uid].handler
        h1 == [hs EXCEPT ![old] = remove_callback(@, cb)]
    IN [h1 EXCEPT ![new] = register_callback(@, cb)]

\* EntityUpdater.async_run: one handler taken from the queue
async_run(kind) ==
    /\ loop.at = "idle"
    /\ queues[kind] # <<>>
    /\ LET h == Head(queues[kind])
           uid == handler[h].uid
       IN /\ queues' = [queues EXCEPT ![kind] = Tail(@)]
          /\ IF uid \in DOMAIN entities[kind]
             THEN /\ handler' = update_handler(handler, entities, kind, uid, h)
                  /\ entities' = [entities EXCEPT ![kind][uid].handler = h]
             ELSE /\ entities' = [entities EXCEPT ![kind] =
                         Put(@, uid, [handler |-> h, added |-> FALSE,
                                      state |-> NoState])]
                  /\ UNCHANGED handler
    /\ UNCHANGED <<thread, local, nframes, sock, handlers, loop, called,
                   device_settings, codec, class_keys>>

\* HomemateEntity.async_added_to_hass, which the host runs once for an
\* entity passed to add_entities
async_added_to_hass(kind, uid) ==
    /\ loop.at = "idle"
    /\ uid \in DOMAIN entities[kind]
    /\ ~entities[kind][uid].added
    /\ handler' = [handler EXCEPT ![entities[kind][uid].handler] =
                      register_callback(@, Callback_of(kind, uid))]
    /\ entities' = [entities EXCEPT ![kind][uid].added = TRUE]
    /\ UNCHANGED <<thread, local, nframes, sock, handlers, queues, loop,
                   called, device_settings, codec, class_keys>>

\* the requests an entity's services pass to order_state_change
NewStates(kind) ==
    IF kind = "light"
    THEN {[x \in {"light"} |-> v] : v \in {"on", "off"}}
    ELSE {[x \in {"cover"} |-> v] : v \in {"up"}}

\* A call of order_state_change on handler h, awaited on the event loop;
\* up to sendall.
Call(h, new_state) ==
    /\ loop.at = "idle"
    /\ LET r == order_state_change(handler[h], new_state)
           out(o) == [handler |-> h, outcome |-> o]
       IN /\ handler[h].serial < MaxOrders
          /\ handler' = [handler EXCEPT ![h] = r.self]
          /\ IF r.outcome # "send"
             THEN /\ called' = out(r.outcome)
                  /\ UNCHANGED <<sock, loop>>
             ELSE IF ~sock[h].open
             THEN /\ called' = out("OSError")
                  /\ UNCHANGED <<sock, loop>>
             ELSE /\ sock' = [sock EXCEPT ![h] = sendall_begin(@, "order")]
                  /\ loop' = [at |-> "sendall", handler |-> h,
                              packet |-> r.packet, todo |-> {}]
                  /\ called' = out("sendall")
    /\ UNCHANGED <<thread, local, nframes, handlers, queues, entities,
                   device_settings, codec, class_keys>>

\* A service of an entity (async_turn_on, async_open_cover, ...) awaits
\* order_state_change on the entity's handler.
Order(kind, uid, new_state) ==
    /\ loop.at = "idle"
    /\ uid \in DOMAIN entities[kind]
    /\ Call(entities[kind][uid].handler, new_state)

\* sendall of the order returns, or raises on a socket closed meanwhile.
Ordered ==
    /\ loop.at = "sendall"
    /\ LET h == loop.handler
       IN IF sock[h].open
          THEN /\ sock' = [sock EXCEPT ![h] =
                     [sendall_end(@, "order") EXCEPT
                        !.orders = Append(@, loop.packet.payload.json["serial"])]]
               /\ called' = [called EXCEPT !.outcome = "sent"]
          ELSE /\ called' = [called EXCEPT !.outcome = "OSError"]
               /\ UNCHANGED sock
    /\ loop' = Idle
    /\ UNCHANGED <<thread, handler, local, nframes, handlers, queues, entities,
                   device_settings, codec, class_keys>>

\* One device connection and the event loop.
(***************************************************************************)
(* Unloading: the server accepts connections on its own thread and starts  *)
(* one thread per connection; async_unload_entry runs on the event loop    *)
(* and blocks it from server.shutdown() to the end.                        *)
(***************************************************************************)
Unloading(at) == [Idle EXCEPT !.at = at]
Serving == loop.at \in {"idle", "sendall"}

\* mutant: the server goes on accepting while the entry is unloaded
Connect_while_unloading(s) ==
    /\ thread[s] = "unborn"
    /\ thread' = [thread EXCEPT ![s] = "started"]
    /\ handler' = [handler EXCEPT ![s] = __init__(class_keys)]
    /\ sock' = [sock EXCEPT ![s] = [NoSock EXCEPT !.open = TRUE]]
    /\ UNCHANGED <<local, nframes, handlers, queues, entities, loop, called,
                   device_settings, codec, class_keys>>

\* The server accepted a connection and started its thread, which has not
\* yet run handle().
Connect(s) ==
    /\ Serving
    /\ thread[s] = "unborn"
    /\ thread' = [thread EXCEPT ![s] = "started"]
    /\ handler' = [handler EXCEPT ![s] = __init__(class_keys)]
    /\ sock' = [sock EXCEPT ![s] = [NoSock EXCEPT !.open = TRUE]]
    /\ UNCHANGED <<local, nframes, handlers, queues, entities, loop, called,
                   device_settings, codec, class_keys>>

\* handle() up to its loop: the handler adds itself to the registry.
Register(s) ==
    /\ thread[s] = "started"
    /\ thread' = [thread EXCEPT ![s] = "recv"]
    /\ handlers' = handlers \cup {s}
    /\ UNCHANGED <<handler, local, nframes, sock, queues, entities, loop,
                   called, device_settings, codec, class_keys>>

\* recv or sendall on a socket that async_unload_entry shut down and
\* closed: recv returns b"" or raises OSError, sendall raises OSError.
Closed(s) ==
    /\ thread[s] \in {"recv", "sendall"}
    /\ ~sock[s].open
    /\ Leave(s)
    /\ UNCHANGED <<handler, nframes, sock, queues, entities, loop, called,
                   device_settings, codec, class_keys>>

\* server.shutdown() returns: serve_forever has stopped accepting.
server_shutdown ==
    /\ loop.at = "idle"
    /\ loop' = Unloading("shutdown")
    /\ UNCHANGED <<thread, handler, local, nframes, sock, handlers, queues,
                   entities, called, device_settings, codec, class_keys>>

\* hass.data[DOMAIN][DATA_HANDLERS].copy()
copy_handlers ==
    /\ loop.at = "shutdown"
    /\ loop' = [Unloading("closing") EXCEPT !.todo = handlers]
    /\ UNCHANGED <<thread, handler, local, nframes, sock, handlers, queues,
                   entities, called, device_settings, codec, class_keys>>

\* One pass of the loop over the copy: request.shutdown(SHUT_RDWR) and
\* request.close().  shutdown raises OSError on a socket that the server
\* closed since the copy (the handler's thread has finished), and the
\* coroutine ends there.
close_request(s) ==
    /\ loop.at = "closing"
    /\ s \in loop.todo
    /\ IF thread[s] = "finished"
       THEN /\ loop' = [loop EXCEPT !.at = "OSError"]
            /\ UNCHANGED sock
       ELSE /\ loop' = [loop EXCEPT !.todo = @ \ {s}]
            /\ sock' = [sock EXCEPT ![s].open = FALSE]
    /\ UNCHANGED <<thread, handler, local, nframes, handlers, queues,
                   entities, called, device_settings, codec, class_keys>>

\* The loop over the copy is over: server.server_close() is called.
server_close_called ==
    /\ loop.at = "closing"
    /\ loop.todo = {}
    /\ loop' = Unloading("server_close")
    /\ UNCHANGED <<thread, handler, local, nframes, sock, handlers, queues,
                   entities, called, device_settings, codec, class_keys>>

\* server_close() returns once it has joined every connection thread
\* (daemon_threads is False); hass.data[DOMAIN] = None follows.
server_close ==
    /\ loop.at = "server_close"
    /\ \A s \in Sessions : thread[s] \in {"unborn", "finished"}
    /\ loop' = Unloading("unloaded")
    /\ UNCHANGED <<thread, handler, local, nframes, sock, handlers, queues,
                   entities, called, device_settings, codec, class_keys>>

Connections == {"h1"}

Next ==
    \/ \E s \in Connections : Accept(s)
    \/ \E s \in Connections : \E data \in Frames : Recv(s, data)
    \/ \E s \in Connections : PeerCloses(s)
    \/ \E s \in Connections : RecvTimesOut(s)
    \/ \E s \in Connections : Replied(s)
    \/ \E s \in Connections : Callback(s)
    \/ \E k \in Kinds : async_run(k)
    \/ \E k \in Kinds : \E u \in Uids \cup {None} : async_added_to_hass(k, u)
    \/ \E k \in Kinds : \E u \in Uids \cup {None} :
          \E ns \in NewStates(k) : Order(k, u, ns)
    \/ Ordered

Spec == Init /\ [][Next]_vars

\* Two device connections, each on its thread; no entity is set up.
FramesTwo ==
    BadFrames \cup
    {build_packet(PACKET_PK, DefaultKey, ID_UNSET, m) :
        m \in HelloMsgs \cup {With(Msg(CMD_HEARTBEAT, 1), "uid", "u1"),
                              StateMsg("on", "goingUp", 40), Msg(7, 1)}}

NextTwo ==
    \/ \E s \in Sessions : Accept(s)
    \/ \E s \in Sessions : \E data \in FramesTwo : Recv(s, data)
    \/ \E s \in Sessions : PeerCloses(s)
    \/ \E s \in Sessions : RecvTimesOut(s)
    \/ \E s \in Sessions : Replied(s)
    \/ \E s \in Sessions : Callback(s)

SpecTwo == Init /\ [][NextTwo]_vars

\* One device connection on its thread, every frame of the menu; no entity
\* is set up.
NextOne ==
    \/ \E s \in Connections : Accept(s)
    \/ \E s \in Connections : \E data \in Frames : Recv(s, data)
    \/ \E s \in Connections : PeerCloses(s)
    \/ \E s \in Connections : RecvTimesOut(s)
    \/ \E s \in Connections : Replied(s)
    \/ \E s \in Connections : Callback(s)

SpecOne == Init /\ [][NextOne]_vars

\* One device connection under device settings that someone put in
\* hass.data[DOMAIN][CONF_DEVICES], keyed by the local address a device
\* reports: none, an entry with a name, an entry without one.
DeviceSettings ==
    {EmptyDict,
     [ip \in {"10.0.0.5"} |-> [x \in {"name"} |-> "Blinds"]],
     [ip \in {"10.0.0.5"} |-> EmptyDict]}

InitSettings ==
    /\ \E settings \in DeviceSettings : Setup(settings)
    /\ codec = NoCodec

SpecSettings == InitSettings /\ [][NextOne]_vars

\* Two device connections and the unloading of the entry; no entity is set
\* up (async_unload_entry unloads the platforms before it stops the server).
FramesUnload ==
    {build_packet(PACKET_PK, DefaultKey, ID_UNSET, m) :
        m \in {Msg(CMD_HELLO, 1), StateMsg("on", "goingUp", 40),
               [x \in {"serial"} |-> 1]}}
    \cup {[build_packet(PACKET_PK, DefaultKey, ID_UNSET, Msg(CMD_HEARTBEAT, 1))
              EXCEPT !.magic = <<0, 0>>]}

NextUnload ==
    \/ \E s \in Sessions : Connect(s)
    \/ \E s \in Sessions : Register(s)
    \/ \E s \in Sessions : \E data \in FramesUnload : Recv(s, data)
    \/ \E s \in Sessions : PeerCloses(s)
    \/ \E s \in Sessions : RecvTimesOut(s)
    \/ \E s \in Sessions : Replied(s)
    \/ \E s \in Sessions : Callback(s)
    \/ \E s \in Sessions : Closed(s)
    \/ server_shutdown
    \/ copy_handlers
    \/ \E s \in Sessions : close_request(s)
    \/ server_close_called
    \/ server_close

SpecUnload == Init /\ [][NextUnload]_vars

\* Two device connections, which may report the same uid (a device that
\* reconnects), and the entity updaters; no service is called.
UidsRebind == {"u1", "u2"}
\* the updater that runs; the other queue is filled and not drained
KindsRebind == {"light"}
FramesRebind ==
    {build_packet(PACKET_PK, DefaultKey, ID_UNSET, m) :
        m \in {With(Msg(CMD_HEARTBEAT, 1), "uid", u) : u \in UidsRebind}
              \cup {StateMsg("on", "goingUp", 40)}}

NextRebind ==
    \/ \E s \in Sessions : Accept(s)
    \/ \E s \in Sessions : \E data \in FramesRebind : Recv(s, data)
    \/ \E s \in Sessions : PeerCloses(s)
    \/ \E s \in Sessions : RecvTimesOut(s)
    \/ \E s \in Sessions : Replied(s)
    \/ \E s \in Sessions : Callback(s)
    \/ \E k \in KindsRebind : async_run(k)
    \/ \E k \in KindsRebind : \E u \in UidsRebind : async_added_to_hass(k, u)

SpecRebind == Init /\ [][NextRebind]_vars

\* One device connection whose uid has a light entity and a cover entity.
\* The light entity is added to the host before the cover entity, so its
\* callback is registered first (light.py 16-28 and cover.py 27-39 each
\* start an updater; the host adds the entities when it gets to them).
FramesObs ==
    {build_packet(PACKET_PK, DefaultKey, ID_UNSET, m) :
        m \in {With(Msg(CMD_HEARTBEAT, 1), "uid", "u1"),
               StateMsg("on", "goingUp", 40), StateMsg("off", "idle", 0)}}

LightFirst(uid) ==
    /\ uid \in DOMAIN entities["light"]
    /\ Callback_of("light", uid) \in
          handler[entities["light"][uid].handler].callbacks

cover_added_after_light(uid) ==
    /\ LightFirst(uid)
    /\ async_added_to_hass("cover", uid)

NextObs ==
    \/ \E s \in Connections : Accept(s)
    \/ \E s \in Connections : \E data \in FramesObs : Recv(s, data)
    \/ \E s \in Connections : Replied(s)
    \/ \E s \in Connections : Callback(s)
    \/ \E k \in Kinds : async_run(k)
    \/ \E u \in Uids : async_added_to_hass("light", u)
    \/ \E u \in Uids : cover_added_after_light(u)

SpecObs == Init /\ [][NextObs]_vars

\* One device connection and callers of order_state_change that take the
\* handler from the registry (hass.data[DOMAIN][DATA_HANDLERS]) instead of
\* from an entity: a registered handler may not have its device id yet.
FramesCall ==
    {build_packet(PACKET_PK, DefaultKey, ID_UNSET, m) :
        m \in HelloMsgs \cup {With(Msg(CMD_HEARTBEAT, 1), "uid", "u1"),
                              StateMsg("on", "goingUp", 40)}}

RegistryCall(s, new_state) ==
    /\ s \in handlers
    /\ Call(s, new_state)

NextCall ==
    \/ \E s \in Connections : Accept(s)
    \/ \E s \in Connections : \E data \in FramesCall : Recv(s, data)
    \/ \E s \in Connections : PeerCloses(s)
    \/ \E s \in Connections : Replied(s)
    \/ \E s \in Connections : Callback(s)
    \/ \E s \in Connections : \E k \in Kinds : \E ns \in NewStates(k) :
          RegistryCall(s, ns)
    \/ Ordered

SpecCall == Init /\ [][NextCall]_vars

(***************************************************************************)
(* HomematePacket's functions called on bytes: a payload is encrypted and  *)
(* decrypted again; a message is framed, the frame is altered or not, and  *)
(* it is decoded under a key table that holds the key of its type.         *)
(***************************************************************************)
CodecKeys == {DefaultKey, DrawnKey}
CodecTexts ==
    {json_dumps(m) : m \in JsonMsgs}
    \cup {json_dumps(m) \o <<0>> : m \in JsonMsgs}
    \cup {<<>>, <<123, 125, 0, 0>>, <<111, 107>>}
CodecInputs ==
    {[NoCodec EXCEPT !.at = "text", !.key = k, !.text = t] :
        k \in CodecKeys, t \in CodecTexts}
    \cup
    {[NoCodec EXCEPT !.at = "message", !.packet_type = pt[1], !.key = pt[2],
                     !.switch_id = id, !.msg = m] :
        pt \in {PACKET_PK, PACKET_DK} \X CodecKeys, id \in DeviceIds,
        m \in JsonMsgs}

InitCodec == Started /\ codec \in CodecInputs

Encrypt ==
    /\ codec.at = "text"
    /\ codec' = [codec EXCEPT
                    !.at = "encrypted",
                    !.data = encrypt_payload_bytes(codec.key, codec.text)]
    /\ UNCHANGED <<thread, handler, local, nframes, sock, handlers, queues,
                   entities, loop, called, device_settings, class_keys>>

Decrypt ==
    /\ codec.at = "encrypted"
    /\ codec' = [codec EXCEPT
                    !.at = "decrypted",
                    !.result = decrypt_payload_bytes(codec.key, codec.data)]
    /\ UNCHANGED <<thread, handler, local, nframes, sock, handlers, queues,
                   entities, loop, called, device_settings, class_keys>>

Build ==
    /\ codec.at = "message"
    /\ codec' = [codec EXCEPT
                    !.at = "built",
                    !.data = build_packet_bytes(codec.packet_type, codec.key,
                                                codec.switch_id, codec.msg)]
    /\ UNCHANGED <<thread, handler, local, nframes, sock, handlers, queues,
                   entities, loop, called, device_settings, class_keys>>

\* One bit of the frame's bytes after the first 42 is flipped on the way.
Flip(i, bit) ==
    /\ codec.at = "built"
    /\ i \in 43..Len(codec.data)
    /\ codec' = [codec EXCEPT !.at = "altered", !.altered = "flip",
                              !.data[i] = xor(@, 2 ^ bit)]
    /\ UNCHANGED <<thread, handler, local, nframes, sock, handlers, queues,
                   entities, loop, called, device_settings, class_keys>>

\* The frame's bytes after the first 42 are replaced by the ciphertext of
\* another message under the same key.
Substitute(m) ==
    /\ codec.at = "built"
    /\ m # codec.msg
    /\ codec' = [codec EXCEPT
                    !.at = "altered", !.altered = "substitute",
                    !.data = SubSeq(@, 1, 42)
                             \o encrypt_payload_bytes(codec.key,
                                                      json_dumps(m))]
    /\ UNCHANGED <<thread, handler, local, nframes, sock, handlers, queues,
                   entities, loop, called, device_settings, class_keys>>

Decode ==
    /\ codec.at \in {"built", "altered"}
    /\ codec' = [codec EXCEPT
                    !.at = "decoded",
                    !.result = HomematePacket_bytes(
                                   codec.data,
                                   [t \in {codec.packet_type[1]} |-> codec.key])]
    /\ UNCHANGED <<thread, handler, local, nframes, sock, handlers, queues,
                   entities, loop, called, device_settings, class_keys>>

NextCodec ==
    \/ Encrypt
    \/ Decrypt
    \/ Build
    \/ \E i \in 43..74 : \E bit \in 0..7 : Flip(i, bit)
    \/ \E m \in JsonMsgs : Substitute(m)
    \/ Decode

SpecCodec == InitCodec /\ [][NextCodec]_vars

(***************************************************************************)
(* The claims.                                                             *)
(***************************************************************************)
Range(q) == {q[i] : i \in 1..Len(q)}
Live(s) == thread[s] \in {"recv", "sendall", "callbacks"}
\* the step is handle()'s receipt of a frame on connection s
RecvStep(s) == thread[s] = "recv" /\ nframes'[s] = nframes[s] + 1
Decodes(s, data) == HomematePacket(strip(data), handler[s].keys).ok
IsNewId(id) ==
    /\ Len(id) = 32
    /\ \A i \in 1..Len(id) : id[i] \in ascii_lowercase \cup digits
IsNewKey(key) ==
    /\ Len(key) = 16
    /\ \A i \in 1..Len(key) :
          key[i] \in ascii_lowercase \cup ascii_uppercase \cup digits

\* C1: the device id of a session is unset until the first frame that
\* decodes; that frame sets it, to a new id of 32 lowercase letters and
\* digits when the frame carries the all-zero id and to the frame's id
\* otherwise; once set, no step changes it.
C1_DeviceIdAssignedOnce ==
    [][\A s \in Sessions :
          /\ handler[s].switch_id # Unset
                => handler'[s].switch_id = handler[s].switch_id
          /\ (handler[s].switch_id = Unset /\ ~RecvStep(s))
                => handler'[s].switch_id = Unset
          /\ (handler[s].switch_id = Unset /\ RecvStep(s))
                => \A data \in Frames :
                      Recv(s, data) =>
                         IF ~Decodes(s, data)
                         THEN handler'[s].switch_id = Unset
                         ELSE IF data.switch_id = ID_UNSET
                         THEN IsNewId(handler'[s].switch_id)
                         ELSE handler'[s].switch_id = data.switch_id
      ]_vars

\* a session that was given a new id is answering a later frame, which
\* carries another id
C1_Witness ==
    /\ thread["h1"] = "sendall"
    /\ nframes["h1"] >= 2
    /\ IsNewId(handler["h1"].switch_id)
    /\ local["h1"].packet.switch_id = DeclaredId

\* C2: the first hello of a session that holds no key for type 0x64 draws
\* a key of 16 letters and digits, stores it and returns it; every hello
\* returns the stored key, and the stored key is never replaced.
C2_HelloIdempotent ==
    [][\A s \in Sessions :
          /\ TYPE_DK \in DOMAIN handler[s].keys
                => handler'[s].keys = handler[s].keys
          /\ (TYPE_DK \notin DOMAIN handler[s].keys
              /\ TYPE_DK \in DOMAIN handler'[s].keys)
                => /\ thread'[s] = "sendall"
                   /\ local'[s].packet.json_payload["cmd"] = CMD_HELLO
                   /\ IsNewKey(handler'[s].keys[TYPE_DK])
          /\ (RecvStep(s) /\ thread'[s] = "sendall"
              /\ local'[s].packet.json_payload["cmd"] = CMD_HELLO)
                => /\ TYPE_DK \in DOMAIN handler'[s].keys
                   /\ local'[s].response_packet.payload.json["key"]
                         = handler'[s].keys[TYPE_DK]
      ]_vars

\* a second hello is being answered, with the key the first one stored
C2_Witness ==
    /\ thread["h1"] = "sendall"
    /\ nframes["h1"] = 3
    /\ local["h1"].packet.json_payload["cmd"] = CMD_HELLO
    /\ sock["h1"].orders # <<>>
    /\ local["h1"].response_packet.payload.json["key"]
          = handler["h1"].keys[TYPE_DK]

\* the step puts session s on the queue of kind k
Pushes(s, k) == queues'[k] = Append(queues[k], s)
Count(q, x) == Cardinality({i \in 1..Len(q) : q[i] = x})
\* the step ends the handling of a heartbeat by session s
HeartbeatDone(s) ==
    /\ thread[s] = "sendall"
    /\ thread'[s] = "recv"
    /\ local[s].packet.json_payload["cmd"] = CMD_HEARTBEAT

\* C3: a session is put on the light queue and on the cover queue by the
\* first heartbeat it handles, once each, and by no other step: not by a
\* later heartbeat, not by another command, not before that heartbeat.
C3_PushedOnce ==
    [][\A s \in Sessions :
          /\ (HeartbeatDone(s) /\ handler[s].hass_light = None
              /\ handler[s].hass_cover = None)
                => /\ \A k \in Kinds : Pushes(s, k)
                   /\ handler'[s].hass_light = s
                   /\ handler'[s].hass_cover = s
          /\ ~(HeartbeatDone(s) /\ handler[s].hass_light = None)
                => /\ \A k \in Kinds :
                         Count(queues'[k], s) <= Count(queues[k], s)
                   /\ handler'[s].hass_light = handler[s].hass_light
                   /\ handler'[s].hass_cover = handler[s].hass_cover
          /\ handler[s].hass_light = None <=> handler[s].hass_cover = None
      ]_vars

\* a session put on both queues by an earlier heartbeat is answering
\* another heartbeat, and is on each queue once
C3_Witness ==
    /\ thread["h1"] = "sendall"
    /\ local["h1"].packet.json_payload["cmd"] = CMD_HEARTBEAT
    /\ handler["h1"].hass_light = "h1"
    /\ handler["h1"].hass_cover = "h1"
    /\ \A k \in Kinds : Count(queues[k], "h1") = 1

\* the cmd of the message a device put in a frame
CmdOf(data) == data.payload.json["cmd"]
ReplyChunks(w, part) == Parts(w, "handle", part)

\* C4: a frame that is handled without error is answered by exactly one
\* response frame when its cmd is neither 99 nor one of 15 and 98, and by
\* none when it is; the read loop writes nothing else; a frame with cmd 15
\* or 98 leaves every field of the session but the device id of C1 as it
\* was.
C4_ReplyPolicy ==
    [][\A s \in Sessions :
          /\ (RecvStep(s) /\ thread'[s] = "sendall")
                => /\ local'[s].packet.json_payload["cmd"]
                         \notin {CMD_STATE_UPDATE} \cup CMD_SERVER_SENDS
                   /\ sock'[s].wire =
                         Append(sock[s].wire, Chunk("handle", "head"))
          /\ (RecvStep(s) /\ thread'[s] = "callbacks")
                => /\ local'[s].packet.json_payload["cmd"] = CMD_STATE_UPDATE
                   /\ sock'[s] = sock[s]
          /\ (RecvStep(s) /\ thread'[s] = "recv")
                => /\ sock'[s] = sock[s]
                   /\ [handler'[s] EXCEPT !.switch_id = handler[s].switch_id]
                         = handler[s]
                   /\ \A data \in Frames :
                         Recv(s, data) => CmdOf(data) \in CMD_SERVER_SENDS
          /\ (thread[s] = "sendall" /\ thread'[s] # "sendall")
                => LET w == Append(sock[s].wire, Chunk("handle", "tail"))
                   IN sock'[s].wire \in {w, <<>>}
          /\ (~RecvStep(s) /\ thread[s] # "sendall")
                => \A part \in {"head", "tail"} :
                      ReplyChunks(sock'[s].wire, part)
                         <= ReplyChunks(sock[s].wire, part)
      ]_vars

\* a frame with a cmd that has no handler is being answered, after a
\* state update was handled without a response
C4_Witness ==
    /\ thread["h1"] = "sendall"
    /\ local["h1"].packet.json_payload["cmd"] = 7
    /\ handler["h1"].switch_on = True
    /\ sock["h1"].wire = <<Chunk("handle", "head")>>

\* C5: the reply the read loop is writing carries the cmd and the serial of
\* the message it answers and status 0, carries that message's uid exactly
\* when the message has one, has the frame type of the request, is
\* encrypted under the session's key of that type and carries the session's
\* device id, which is set.
C5_ReplyEnvelope ==
    \A s \in Sessions :
       thread[s] = "sendall" =>
          LET req == local[s].packet
              rsp == local[s].response_packet
              p == req.json_payload
              j == rsp.payload.json
          IN /\ j["cmd"] = p["cmd"]
             /\ j["serial"] = p["serial"]
             /\ j["status"] = 0
             /\ Has(j, "uid") <=> Has(p, "uid")
             /\ Has(p, "uid") => j["uid"] = p["uid"]
             /\ rsp.packet_type = req.packet_type
             /\ rsp.payload.key = handler[s].keys[req.packet_type[1]]
             /\ rsp.crc = crc32(rsp.payload)
             /\ handler[s].switch_id # Unset
             /\ rsp.switch_id = handler[s].switch_id

\* a heartbeat framed with type 0x64 is being answered, under the key the
\* session negotiated, and a message without a uid was answered before it
C5_Witness ==
    /\ thread["h1"] = "sendall"
    /\ local["h1"].packet.packet_type = PACKET_DK
    /\ local["h1"].packet.json_payload["cmd"] = CMD_HEARTBEAT
    /\ local["h1"].response_packet.payload.json["uid"] = "u1"
    /\ local["h1"].response_packet.payload.key \in NewKeys
    /\ IsNewId(handler["h1"].switch_id)

\* the cached fields a state update with payload p leaves
Cached(p) ==
    [switch_on |-> IF p["lightingState"] = "on" THEN True ELSE False,
     moving |-> IF p["motorState"] = "goingUp" THEN 1
                ELSE IF p["motorState"] = "goingDown" THEN -1 ELSE 0,
     position |-> p["motorPosition"]]

\* C6: a state update that is processed leaves power on iff lightingState
\* is "on", motion +1 for "goingUp", -1 for "goingDown" and 0 otherwise, and
\* position equal to motorPosition; the callbacks are invoked only after
\* the three fields were set, each reads the fields as set, none is invoked
\* twice, and when the loop over the callbacks ends every callback
\* registered when the update arrived has been invoked once.
C6_StateUpdate ==
    [][\A s \in Sessions :
          /\ (RecvStep(s) /\ thread'[s] = "callbacks")
                => /\ local'[s].packet.json_payload["cmd"] = CMD_STATE_UPDATE
                   /\ Snapshot(handler'[s]) = Cached(local'[s].packet.json_payload)
                   /\ local'[s].start = handler[s].callbacks
                   /\ local'[s].done = <<>>
                   /\ entities' = entities
          /\ thread[s] = "callbacks"
                => /\ Snapshot(handler[s]) = Cached(local[s].packet.json_payload)
                   /\ Snapshot(handler'[s]) = Snapshot(handler[s])
          /\ (thread[s] = "callbacks" /\ thread'[s] = "callbacks"
              /\ local'[s].done # local[s].done)
                => \E cb \in handler[s].callbacks :
                      /\ local'[s].done = Append(local[s].done, cb)
                      /\ cb \notin Range(local[s].done)
                      /\ entities'[cb[1]][cb[2]].state = Snapshot(handler[s])
          /\ (thread[s] = "callbacks" /\ thread'[s] = "recv")
                => /\ Range(local[s].done) = local[s].start
                   /\ Len(local[s].done) = Cardinality(local[s].start)
      ]_vars

\* both entities of a session were notified of a state update, each once,
\* and show what the update said
C6_Witness ==
    /\ thread["h1"] = "callbacks"
    /\ Len(local["h1"].done) = 2
    /\ Range(local["h1"].done) = handler["h1"].callbacks
    /\ Snapshot(handler["h1"])
          = [switch_on |-> False, moving |-> -1, position |-> 60]
    /\ \A cb \in handler["h1"].callbacks :
          entities[cb[1]][cb[2]].state = Snapshot(handler["h1"])

\* the light service of an entity over a session whose power state is unknown
LightNoOp(u, ns) ==
    /\ u \in DOMAIN entities["light"]
    /\ handler[entities["light"][u].handler].switch_on = None
    /\ Order("light", u, ns)

\* C7: a light directive on a session whose power state is unknown writes
\* nothing to the socket and changes no field of any session, the serial
\* included; a power state that is known never becomes unknown again, and a
\* light directive on a session whose power state is known is no no-op.
C7_NoOpGuard ==
    [][/\ \A u \in Uids \cup {None} : \A ns \in NewStates("light") :
             LightNoOp(u, ns) => /\ handler' = handler
                                 /\ sock' = sock
                                 /\ loop' = loop
                                 /\ called'.outcome = "return"
       /\ \A s \in Sessions :
             handler[s].switch_on # None => handler'[s].switch_on # None
       /\ \A u \in Uids \cup {None} : \A ns \in NewStates("light") :
             (Order("light", u, ns) /\ ~LightNoOp(u, ns))
                => /\ called'.outcome # "return"
                   /\ handler'[called'.handler].serial
                         = handler[called'.handler].serial + 1
      ]_vars

\* a light directive returned at once on a session that has a key, an id
\* and an open socket, and sent nothing
C7_Witness ==
    /\ called = [handler |-> "h1", outcome |-> "return"]
    /\ handler["h1"].switch_on = None
    /\ handler["h1"].serial = 0
    /\ TYPE_DK \in DOMAIN handler["h1"].keys
    /\ thread["h1"] = "recv"
    /\ sock["h1"].orders = <<>>

\* the step is a call of order_state_change on session s through an entity
OrderCall(s) ==
    /\ loop.at = "idle"
    /\ UNCHANGED <<thread, local, nframes, entities, queues>>
    /\ \E k \in Kinds : \E u \in DOMAIN entities[k] :
          /\ entities[k][u].handler = s
          /\ \E ns \in NewStates(k) : Order(k, u, ns)
\* the call returns at the guard of the light directive (C7)
NoOpCall(s) ==
    /\ loop.at = "idle"
    /\ UNCHANGED <<thread, local, nframes, entities, queues>>
    /\ handler[s].switch_on = None
    /\ \E u \in DOMAIN entities["light"] :
          /\ entities["light"][u].handler = s
          /\ \E ns \in NewStates("light") : Order("light", u, ns)
NoDuplicates(q) == \A i, j \in 1..Len(q) : i # j => q[i] # q[j]

C9_WritesExclusive ==
    \A s \in Sessions : Cardinality(Writing(sock[s].wire)) <= 1

\* the frame fails the magic, length, type or CRC check of HomematePacket
Invalid(s, data) ==
    LET r == HomematePacket(strip(data), handler[s].keys)
    IN ~r.ok /\ r.error = "AssertionError"

\* C10: a frame that fails the magic, length, type or CRC check ends the
\* session that received it: its thread finishes, it leaves the registry,
\* its socket is closed with no reply written, and no field of it changes
\* (no id is assigned, no handler runs, it is put on no queue); every other
\* session keeps its thread's position, its registry membership, its
\* fields (keys and cached state included), its socket and its frames.
C10_BadFrameIsolated ==
    [][\A s \in Sessions :
          RecvStep(s) =>
             \A data \in FramesTwo :
                (Invalid(s, data) /\ Recv(s, data))
                   => /\ thread'[s] = "finished"
                      /\ s \notin handlers'
                      /\ ~sock'[s].open
                      /\ sock'[s].wire = sock[s].wire
                      /\ handler'[s] = handler[s]
                      /\ queues' = queues
                      /\ \A t \in Sessions \ {s} :
                            /\ thread'[t] = thread[t]
                            /\ (t \in handlers') <=> (t \in handlers)
                            /\ handler'[t] = handler[t]
                            /\ sock'[t] = sock[t]
                            /\ local'[t] = local[t]
                            /\ nframes'[t] = nframes[t]
      ]_vars

\* a session ended on its first frame, which did not decode, while the
\* other one, which has negotiated a key and cached a state, is registered
\* and is answering its third frame
C10_Witness ==
    /\ thread["h1"] = "finished"
    /\ nframes["h1"] = 1
    /\ handler["h1"] = NewHandler
    /\ "h1" \notin handlers
    /\ thread["h2"] = "sendall"
    /\ nframes["h2"] = 3
    /\ "h2" \in handlers
    /\ TYPE_DK \in DOMAIN handler["h2"].keys
    /\ handler["h2"].switch_on = True

\* the frame, as handle() passes it to HomematePacket, fails the magic, the
\* length, the type or the CRC assertion (lines 46-61)
BadHeader(data) ==
    LET d == strip(data)
    IN \/ d.magic # MAGIC
       \/ d.length # d.len
       \/ d.packet_type \notin {PACKET_PK, PACKET_DK}
       \/ crc32(d.payload) # d.crc

\* C11: decoding validates before it decrypts: for every received frame
\* whose magic, length, type or CRC check fails, the decoding raises the
\* assertion's error having reached neither the key lookup nor the
\* decryption, and the connection is closed: the thread finishes, the
\* socket is closed with nothing written, the session leaves the registry.
C11_ValidateBeforeDecrypt ==
    [][\A s \in Connections :
          RecvStep(s) =>
             \A data \in Frames :
                (BadHeader(data) /\ Recv(s, data))
                   => LET r == HomematePacket(strip(data), handler[s].keys)
                      IN /\ ~r.ok
                         /\ r.error = "AssertionError"
                         /\ "lookup" \notin Range(r.reached)
                         /\ "decrypt" \notin Range(r.reached)
                         /\ thread'[s] = "finished"
                         /\ ~sock'[s].open
                         /\ sock'[s].wire = sock[s].wire
                         /\ s \notin handlers'
      ]_vars

\* a session that has negotiated its 0x64 key and answered two frames has
\* ended on its third frame; frames with a bad header are among the frames
\* that end it there with its fields as they were
C11_Witness ==
    /\ thread["h1"] = "finished"
    /\ nframes["h1"] = 3
    /\ TYPE_DK \in DOMAIN handler["h1"].keys
    /\ handler["h1"].uid = "u1"
    /\ Len(sock["h1"].wire) = 0
    /\ Len(sock["h1"].orders) = 0
    /\ ~sock["h1"].open

\* the frame passes the four assertions and its type byte has no key in
\* the session's key table
MissingKey(s, data) ==
    /\ ~BadHeader(data)
    /\ strip(data).packet_type[1] \notin DOMAIN handler[s].keys

\* C12: a structurally valid frame whose type byte has no entry in the
\* session's key table (a 0x64 frame before any hello of the session) ends
\* the connection: the thread finishes and leaves the registry, nothing is
\* written, and the session's fields (device id, keys, cached telemetry
\* and the rest) and the queues are as before the frame.
C12_MissingKeyFatal ==
    [][\A s \in Connections :
          RecvStep(s) =>
             \A data \in Frames :
                (MissingKey(s, data) /\ Recv(s, data))
                   => /\ HomematePacket(strip(data), handler[s].keys).error
                            = "KeyError"
                      /\ thread'[s] = "finished"
                      /\ s \notin handlers'
                      /\ ~sock'[s].open
                      /\ sock'[s].wire = sock[s].wire
                      /\ handler'[s] = handler[s]
                      /\ queues' = queues
      ]_vars

\* a session that answered a handshake and never saw a hello (no 0x64 key,
\* no device id but the drawn one) has ended on its second frame; a 0x64
\* frame is among the frames that end it there
C12_Witness ==
    /\ thread["h1"] = "finished"
    /\ nframes["h1"] = 2
    /\ TYPE_DK \notin DOMAIN handler["h1"].keys
    /\ handler["h1"].device_name # Unset
    /\ handler["h1"].switch_id \in NewIds
    /\ handler["h1"].uid = None
    /\ "h1" \notin handlers

\* the frame decodes and its payload lacks cmd or serial
Malformed(s, data) ==
    LET r == HomematePacket(strip(data), handler[s].keys)
    IN /\ r.ok
       /\ ~Has(r.json_payload, "cmd") \/ ~Has(r.json_payload, "serial")

\* C13: a decrypted payload that lacks cmd or serial ends the connection:
\* the thread finishes and leaves the registry, no command handler runs (no
\* field of the session changes but the device id, which is assigned
\* before the assertion when the frame is the first to decode), no reply
\* is written and the session is put on no queue.
C13_MalformedPayloadFatal ==
    [][\A s \in Connections :
          RecvStep(s) =>
             \A data \in Frames :
                (Malformed(s, data) /\ Recv(s, data))
                   => /\ thread'[s] = "finished"
                      /\ s \notin handlers'
                      /\ ~sock'[s].open
                      /\ sock'[s].wire = sock[s].wire
                      /\ queues' = queues
                      /\ [handler'[s] EXCEPT !.switch_id = handler[s].switch_id]
                            = handler[s]
                      /\ handler'[s].hass_light = handler[s].hass_light
                      /\ handler'[s].hass_cover = handler[s].hass_cover
      ]_vars

\* a session has ended on its first frame with a device id assigned and no
\* other field set: the frame decoded, and no handler ran for it
C13_Witness ==
    /\ thread["h1"] = "finished"
    /\ nframes["h1"] = 1
    /\ handler["h1"].switch_id \in NewIds
    /\ [handler["h1"] EXCEPT !.switch_id = Unset] = NewHandler
    /\ Len(sock["h1"].wire) = 0
    /\ queues = [k \in Kinds |-> <<>>]

\* C14: the registry is the set of the sessions whose read loop runs: a
\* session is in it from line 245, before its first recv, until its loop
\* is left, whatever leaves it (the peer closing, the timeout, a frame or
\* payload error, the socket closed by the unloading), and never after.
C14_RegistryIsLiveSessions ==
    /\ handlers = {s \in Sessions : Live(s)}
    /\ \A s \in Sessions : nframes[s] > 0 => thread[s] \notin {"unborn", "started"}

\* the unloading closed the socket of h1 while it waited in recv and h1
\* left its loop and the registry; h2, still to be closed, is registered
\* and has read nothing yet
C14_Witness ==
    /\ loop.at = "closing"
    /\ loop.todo = {"h2"}
    /\ thread["h1"] = "finished"
    /\ ~sock["h1"].open
    /\ "h1" \notin handlers
    /\ thread["h2"] = "recv"
    /\ nframes["h2"] = 0
    /\ handlers = {"h2"}

\* C15: once async_unload_entry has run its loop over the registered
\* sockets (server_close() called or returned), no accepted session is left
\* with an open socket.
C15_ShutdownClosesEverySocket ==
    loop.at \in {"server_close", "unloaded"}
        => \A s \in Sessions : thread[s] # "unborn" => ~sock[s].open

\* the handler each entity of an updater wraps, by uid
Wrapped(ents) == [u \in DOMAIN ents |-> ents[u].handler]
\* the step is one pass of the updater of kind k (lines 124-134)
Drains(k) ==
    /\ loop.at = "idle"
    /\ queues[k] # <<>>
    /\ queues'[k] = Tail(queues[k])
    /\ UNCHANGED <<thread, local, nframes, sock, handlers>>
    /\ async_run(k)

WithoutNull(text) ==
    IF Len(text) > 0 /\ text[Len(text)] = 0
    THEN SubSeq(text, 1, Len(text) - 1) ELSE text
IsJsonText(text) == \E m \in JsonMsgs : json_dumps(m) = text

\* C17 as stated: for every payload P and key K, decrypt(encrypt(P, K), K)
\* returns P, less one trailing null byte if P ends with one.
C17_EveryPayloadRoundTrips ==
    codec.at = "decrypted"
        => /\ codec.result.ok
           /\ json_dumps(codec.result.value) = WithoutNull(codec.text)

\* C17, amended: for every message M that json.dumps writes as the text P
\* and every key K, decrypt_payload(K, encrypt_payload(K, P)) returns M, and
\* it returns M as well when one null byte follows P; the ciphertext is a
\* whole number of blocks, longer than the payload.  decrypt_payload parses
\* the text it recovers: for a payload that, without one trailing null
\* byte, is not the text of a message (the empty payload included) it
\* raises and returns nothing.
C17_CipherRoundTrip ==
    /\ codec.at = "encrypted"
          => /\ Len(codec.data) % BlockLen = 0
             /\ Len(codec.data) > Len(codec.text)
             /\ Len(codec.data) <= Len(codec.text) + BlockLen
    /\ codec.at = "decrypted"
          => IF IsJsonText(WithoutNull(codec.text))
             THEN /\ codec.result.ok
                  /\ json_dumps(codec.result.value) = WithoutNull(codec.text)
             ELSE /\ ~codec.result.ok
                  /\ codec.result.error \in {"ValueError", "IndexError"}
                  /\ (codec.result.error = "IndexError") <=> (codec.text = <<>>)

\* the 15 bytes of {"serial": 123} and a null byte fill one block: the
\* ciphertext has a second block, of padding, and decrypts to the message
C17_Witness ==
    /\ codec.at = "decrypted"
    /\ codec.key = DrawnKey
    /\ codec.text = json_dumps([x \in {"serial"} |-> 123]) \o <<0>>
    /\ Len(codec.data) = 2 * BlockLen
    /\ codec.result.ok
    /\ codec.result.value = [x \in {"serial"} |-> 123]

\* C18 as stated: a frame whose bytes after the first 42 were altered after
\* encoding is rejected by the decoding.
C18_EveryAlterationRejected ==
    (codec.at = "decoded" /\ codec.altered # "no") => ~codec.result.ok

\* C18, amended: for both frame types, every key, 32-byte device id and
\* message, build_packet gives a frame whose length field is its length and
\* whose CRC field is the CRC32 of its bytes after the first 42; under a
\* key table that holds the key for the type, HomematePacket accepts the
\* frame and returns the type, the device id and the message; with one bit
\* flipped in the bytes after the first 42 the CRC assertion rejects it.
C18_FrameRoundTrip ==
    /\ codec.at = "built"
          => /\ unpack_H(SubSeq(codec.data, 3, 4)) = Len(codec.data)
             /\ SubSeq(codec.data, 7, 10)
                   = crc32_bytes(SubSeq(codec.data, 43, Len(codec.data)))
             /\ Len(codec.switch_id) = IdLen
    /\ (codec.at = "decoded" /\ codec.altered = "no")
          => /\ codec.result.ok
             /\ codec.result.packet_type = codec.packet_type
             /\ codec.result.switch_id = codec.switch_id
             /\ codec.result.json_payload = codec.msg
    /\ (codec.at = "decoded" /\ codec.altered = "flip")
          => /\ ~codec.result.ok
             /\ codec.result.error = "AssertionError"

\* a 0x64 frame of 74 bytes under the drawn key, with a declared device id,
\* was decoded to what it was built from
C18_Witness ==
    /\ codec.at = "decoded"
    /\ codec.altered = "no"
    /\ codec.packet_type = PACKET_DK
    /\ codec.key = DrawnKey
    /\ codec.switch_id = DeclaredId
    /\ Len(codec.data) = 74
    /\ codec.result.ok
    /\ codec.result.json_payload = [x \in {"serial"} |-> 20636]

\* the callbacks of the two entities of device u1
light_callback == Callback_of("light", "u1")
cover_callback == Callback_of("cover", "u1")
Invoked(s, cb) == \E i \in 1..Len(local[s].done) : local[s].done[i] = cb

\* C19: when a telemetry frame is applied, the observer callbacks registered
\* on the session are each invoked once, in registration order: with the
\* light entity's callback registered before the cover entity's and neither
\* removed, the cover's callback is invoked only after the light's.
C19_RegistrationOrder ==
    [][\A s \in Connections :
          (/\ thread[s] = "callbacks"
           /\ light_callback \in local[s].start
           /\ local'[s].done = Append(local[s].done, cover_callback))
          => Invoked(s, light_callback)
      ]_vars

\* the step is a call of order_state_change on session s that raises for
\* lack of the device id or of the 0x64 key
FailedCall(s) ==
    /\ loop.at = "idle"
    /\ UNCHANGED <<thread, local, nframes, entities, queues>>
    /\ \E k \in Kinds : \E ns \in NewStates(k) : Call(s, ns)
    /\ called'.outcome \in {"AttributeError", "KeyError"}

\* C20: a call of order_state_change that fails because the session has no
\* device id yet, or no key for frame type 0x64, still leaves the session's
\* serial one higher than before the call.
C20_FailedCallCounts ==
    [][\A s \in Connections :
          FailedCall(s) => handler'[s].serial = handler[s].serial + 1
      ]_vars

\* the step closes the socket of s from outside its thread, which goes on
ClosedByUnloading(s) ==
    /\ sock[s].open
    /\ ~sock'[s].open
    /\ thread'[s] = thread[s]
\* the step is the server accepting connection s
Accepted(s) == thread[s] = "unborn" /\ thread'[s] # "unborn"

\* C21 as stated: the listener stops accepting only after the socket of
\* every live session was shut down and closed.
C21_SocketsClosedFirst ==
    [][(loop.at = "idle" /\ loop'.at = "shutdown")
          => \A s \in handlers : ~sock[s].open
      ]_vars

\* C21, amended: the listener stops accepting first (server.shutdown()
\* returns), the sockets of the sessions are shut down and closed only
\* after that, one by one and only those in the copy of the registry, and
\* no connection is accepted once the listener has stopped.
C21_ListenerStopsFirst ==
    [][\A s \in Sessions :
          /\ ClosedByUnloading(s) =>
                /\ loop.at = "closing"
                /\ s \in loop.todo
                /\ \A t \in Sessions \ {s} : sock'[t] = sock[t]
          /\ Accepted(s) => Serving
      ]_vars

\* the listener has stopped and the loop over the copy closed the sockets
\* of h1 and h2, whose threads still wait in recv
C21_Witness ==
    /\ loop.at = "closing"
    /\ loop.todo = {}
    /\ thread["h1"] = "recv" /\ ~sock["h1"].open
    /\ thread["h2"] = "recv" /\ ~sock["h2"].open
    /\ handlers = {"h1", "h2"}

\* the step handles a handshake on session s, which goes on to reply
HandshakeStep(s) ==
    /\ RecvStep(s)
    /\ thread'[s] = "sendall"
    /\ local'[s].packet.json_payload["cmd"] = CMD_HANDSHAKE
\* the settings entry for the local address message p reports, if any
Configured(p) == Has(p, "localIp") /\ p["localIp"] \in DOMAIN device_settings
\* the reply's message is an empty acknowledgment in the envelope of C5
EmptyAck(s) ==
    DOMAIN local'[s].response_packet.payload.json \ {"uid"}
        = {"cmd", "serial", "status"}

IdentityKnown(self) == self.switch_id # Unset /\ self.uid # None

\* C23: a session is put on a notification queue only once its identity is
\* known: when it is pushed, and when the consumer takes it off the queue
\* and reads its uid, it has a device id and a non-null uid, and the push
\* follows the write of the heartbeat reply.
C23_QueuedWithIdentity ==
    [][\A k \in Kinds :
          /\ Len(queues'[k]) > Len(queues[k])
                => LET h == queues'[k][Len(queues'[k])]
                   IN /\ IdentityKnown(handler'[h])
                      /\ thread[h] = "sendall"
                      /\ local[h].packet.json_payload["cmd"] = CMD_HEARTBEAT
          /\ Len(queues'[k]) < Len(queues[k])
                => IdentityKnown(handler[Head(queues[k])])
      ]_vars

\* the step is the receipt on session s of a state update that decodes and
\* whose processing raises
StateUpdateFails(s) ==
    /\ RecvStep(s)
    /\ thread'[s] = "finished"
    /\ \E data \in Frames :
          /\ Decodes(s, data)
          /\ Has(data.payload.json, "cmd")
          /\ Has(data.payload.json, "serial")
          /\ CmdOf(data) = CMD_STATE_UPDATE
          /\ Recv(s, data)

\* C24: a state update is all-or-nothing: when the processing of a cmd 99
\* message fails, the cached power, motion and position keep the values
\* they had before the message.
C24_StateUpdateAtomic ==
    [][\A s \in Connections :
          StateUpdateFails(s) => Snapshot(handler'[s]) = Snapshot(handler[s])
      ]_vars

\* the key table a session starts with
OnlyDefaultKey == [t \in {TYPE_PK} |-> DefaultKey]

\* C25: key tables are per session: a session starts with exactly the
\* default key for type 0x70, whatever other sessions did before; a step
\* that changes the key table of a session is a step of that session's
\* own thread and changes no other session's table; the class's default
\* key table never changes.
C25_KeysPerSession ==
    [][\A s \in Sessions :
          /\ Accepted(s) => handler'[s].keys = OnlyDefaultKey
          /\ (~Accepted(s) /\ handler'[s].keys # handler[s].keys)
                => /\ RecvStep(s)
                   /\ \A t \in Sessions \ {s} :
                         handler'[t].keys = handler[t].keys
          /\ class_keys = OnlyDefaultKey
          /\ class_keys' = OnlyDefaultKey
      ]_vars

\* both sessions negotiated a key, each its own, and the class's table
\* still holds the default key alone
C25_Witness ==
    /\ TYPE_DK \in DOMAIN handler["h1"].keys
    /\ TYPE_DK \in DOMAIN handler["h2"].keys
    /\ handler["h1"].keys[TYPE_DK] # handler["h2"].keys[TYPE_DK]
    /\ class_keys = OnlyDefaultKey

\* C26: an order issued through an entity that gets as far as sendall is
\* written to the socket of a session whose read loop runs, never given
\* to the closed socket of a session whose loop was left.
C26_OrdersReachLiveSession ==
    [][\A s \in Connections :
          (OrderCall(s) /\ called'.outcome \in {"sendall", "OSError"})
             => Live(s) /\ sock[s].open
      ]_vars

\* the session was put on the notification queues (lines 299-314)
Pushed(self) == self.hass_light # None /\ self.hass_cover # None

\* C27: the uid of a registered session is stable: once a heartbeat set it
\* and the session was put on the queues, no later frame of the session
\* changes the cached uid or resets it.
C27_UidStable ==
    [][\A s \in Connections :
          (Pushed(handler[s]) /\ handler[s].uid # None)
             => handler'[s].uid = handler[s].uid
      ]_vars

\* C28: the read loop hands the received bytes to the decoder unmodified:
\* every received frame that HomematePacket accepts as it arrived, with
\* the session's keys, is accepted by the session's decoding, whatever its
\* last bytes.
C28_FramesHandedUnmodified ==
    [][\A s \in Connections :
          RecvStep(s) =>
             \A data \in Frames :
                (HomematePacket(data, handler[s].keys).ok /\ Recv(s, data))
                   => Decodes(s, data)
      ]_vars

====
